---- MODULE Spec2Model ----
(***************************************************************************)
(* Voice command interpretation and dispatch of the inclusive voting app   *)
(* (src/voice.js), over a small model of the document it queries.          *)
(*                                                                         *)
(* Commands are strings; String.prototype.includes, the regular            *)
(* expressions of the candidate-number extraction and parseInt are         *)
(* computed character by character.  The document is a sequence of         *)
(* element records in document order; every selector of the source is an   *)
(* operator over that sequence.                                            *)
(***************************************************************************)
EXTENDS Integers, Sequences, FiniteSets, TLC

(***************************************************************************)
(* Strings                                                                 *)
(***************************************************************************)

\* The elements of a sequence.
Range(seq) == { seq[i] : i \in 1..Len(seq) }

\* An absent value (null / undefined / no match) is the empty sequence,
\* a present value v is <<v>>.
None == <<>>

Some(v) == <<v>>

CharAt(s, i) == SubSeq(s, i, i)

DigitChars == <<"0", "1", "2", "3", "4", "5", "6", "7", "8", "9">>

UpperChars == "ABCDEFGHIJKLMNOPQRSTUVWXYZ"

LowerChars == "abcdefghijklmnopqrstuvwxyz"

\* \d
IsDigit(c) == \E d \in 1..10 : DigitChars[d] = c

DigitVal(c) == (CHOOSE d \in 1..10 : DigitChars[d] = c) - 1

\* \s (the transcripts of the model hold no other white space than blanks)
IsSpace(c) == c = " "

\* \w
IsWordChar(c) ==
    \/ IsDigit(c)
    \/ c = "_"
    \/ \E i \in 1..26 : CharAt(LowerChars, i) = c \/ CharAt(UpperChars, i) = c

\* String.prototype.includes
Includes(s, kw) ==
    \E i \in 1..(Len(s) - Len(kw) + 1) : SubSeq(s, i, i + Len(kw) - 1) = kw

LowerChar(c) ==
    IF \E i \in 1..26 : CharAt(UpperChars, i) = c
    THEN CharAt(LowerChars, CHOOSE i \in 1..26 : CharAt(UpperChars, i) = c)
    ELSE c

RECURSIVE toLowerCase(_)
toLowerCase(s) ==
    IF s = "" THEN "" ELSE LowerChar(CharAt(s, 1)) \o toLowerCase(SubSeq(s, 2, Len(s)))

RECURSIVE trimStart(_)
trimStart(s) ==
    IF s # "" /\ IsSpace(CharAt(s, 1)) THEN trimStart(SubSeq(s, 2, Len(s))) ELSE s

RECURSIVE trimEnd(_)
trimEnd(s) ==
    IF s # "" /\ IsSpace(CharAt(s, Len(s))) THEN trimEnd(SubSeq(s, 1, Len(s) - 1)) ELSE s

trim(s) == trimEnd(trimStart(s))

\* replace(/[^\w\s]/g, '')
RECURSIVE stripNonWord(_)
stripNonWord(s) ==
    IF s = "" THEN ""
    ELSE (IF IsWordChar(CharAt(s, 1)) \/ IsSpace(CharAt(s, 1)) THEN CharAt(s, 1) ELSE "")
         \o stripNonWord(SubSeq(s, 2, Len(s)))

normalizeCommand(text) == stripNonWord(trim(toLowerCase(text)))

\* The decimal value of a run of digits.
RECURSIVE DigitsValue(_)
DigitsValue(s) ==
    IF s = "" THEN 0
    ELSE 10 * DigitsValue(SubSeq(s, 1, Len(s) - 1)) + DigitVal(CharAt(s, Len(s)))

\* The index of the last character of the longest run of digits that starts
\* at p (p - 1 when s has no digit at p): the greedy \d+.
RECURSIVE DigitRunEnd(_, _)
DigitRunEnd(s, p) ==
    IF p <= Len(s) /\ IsDigit(CharAt(s, p)) THEN DigitRunEnd(s, p + 1) ELSE p - 1

\* The first index at or after p that holds no white space: the greedy \s*.
RECURSIVE SkipSpaces(_, _)
SkipSpaces(s, p) ==
    IF p <= Len(s) /\ IsSpace(CharAt(s, p)) THEN SkipSpaces(s, p + 1) ELSE p

\* parseInt: leading white space is skipped, then an optional sign and the
\* longest run of digits are read; without a digit the result is NaN (None).
parseInt(s) ==
    LET p == SkipSpaces(s, 1)
        neg == p <= Len(s) /\ CharAt(s, p) = "-"
        q == IF p <= Len(s) /\ CharAt(s, p) \in {"-", "+"} THEN p + 1 ELSE p
        e == DigitRunEnd(s, q)
    IN  IF e < q THEN None
        ELSE Some((IF neg THEN -1 ELSE 1) * DigitsValue(SubSeq(s, q, e)))

\* `${n}` for a number n >= 0
RECURSIVE numberToString(_)
numberToString(n) ==
    IF n < 10 THEN DigitChars[n + 1] ELSE numberToString(n \div 10) \o DigitChars[(n % 10) + 1]

\* String.prototype.replace(pattern, '') with a string pattern: the first
\* occurrence only.
replaceFirst(s, pat) ==
    IF Includes(s, pat)
    THEN LET i == CHOOSE i \in 1..(Len(s) - Len(pat) + 1) :
                    /\ SubSeq(s, i, i + Len(pat) - 1) = pat
                    /\ \A j \in 1..(i - 1) : SubSeq(s, j, j + Len(pat) - 1) # pat
         IN  SubSeq(s, 1, i - 1) \o SubSeq(s, i + Len(pat), Len(s))
    ELSE s

(***************************************************************************)
(* Candidate-number extraction (handleVotingCommands, lines 489-528)       *)
(***************************************************************************)

\* The regular expressions of `patterns`, in the order of the array:
\* /<prefix>\s*(\d+)/i for the first five, /\b(\d+)\b/ for the last.
patterns ==
    << [prefix |-> "candidate", standalone |-> FALSE],
       [prefix |-> "number", standalone |-> FALSE],
       [prefix |-> "vote", standalone |-> FALSE],
       [prefix |-> "select", standalone |-> FALSE],
       [prefix |-> "choose", standalone |-> FALSE],
       [prefix |-> "", standalone |-> TRUE] >>

\* The entries of `wordNumbers` in the order Object.entries yields them.
wordNumbers ==
    << [word |-> "one", num |-> 1], [word |-> "two", num |-> 2],
       [word |-> "three", num |-> 3], [word |-> "four", num |-> 4],
       [word |-> "five", num |-> 5], [word |-> "six", num |-> 6],
       [word |-> "seven", num |-> 7], [word |-> "eight", num |-> 8],
       [word |-> "nine", num |-> 9], [word |-> "ten", num |-> 10] >>

\* The start positions at which /<prefix>\s*(\d+)/ matches.
PrefixMatchStarts(prefix, command) ==
    { i \in 1..(Len(command) - Len(prefix) + 1) :
        /\ SubSeq(command, i, i + Len(prefix) - 1) = prefix
        /\ LET p == SkipSpaces(command, i + Len(prefix))
           IN  DigitRunEnd(command, p) >= p }

\* The start positions at which /\b(\d+)\b/ matches: a whole run of digits
\* with no word character on either side.
StandaloneMatchStarts(command) ==
    { i \in 1..Len(command) :
        /\ IsDigit(CharAt(command, i))
        /\ (i = 1 \/ ~IsWordChar(CharAt(command, i - 1)))
        /\ LET e == DigitRunEnd(command, i)
           IN  e = Len(command) \/ ~IsWordChar(CharAt(command, e + 1)) }

Min(S) == CHOOSE x \in S : \A y \in S : x <= y

\* command.match(pattern): the first capture group of the leftmost match,
\* None when the pattern does not match.
match(command, pattern) ==
    IF pattern.standalone
    THEN LET starts == StandaloneMatchStarts(command)
         IN  IF starts = {} THEN None
             ELSE LET i == Min(starts)
                  IN  Some(SubSeq(command, i, DigitRunEnd(command, i)))
    ELSE LET starts == PrefixMatchStarts(pattern.prefix, command)
         IN  IF starts = {} THEN None
             ELSE LET p == SkipSpaces(command, Min(starts) + Len(pattern.prefix))
                  IN  Some(SubSeq(command, p, DigitRunEnd(command, p)))

\* The loop over `patterns` (lines 508-515): the number captured by the
\* first pattern of the array that matches, None (null) when none does.
numericCandidateNumber(command) ==
    LET hits == { k \in 1..Len(patterns) : match(command, patterns[k]) # None }
    IN  IF hits = {} THEN None
        ELSE parseInt(match(command, patterns[Min(hits)])[1])

\* !candidateNumber: null and 0 are falsy.
IsFalsyNumber(c) == c = None \/ c = Some(0)

\* A scan of the command instead of the table: the number of the word that
\* occurs first in the command.
wordCandidateNumberByPosition(command) ==
    LET at(k) == { i \in 1..Len(command) :
                     i + Len(wordNumbers[k].word) - 1 <= Len(command)
                     /\ SubSeq(command, i, i + Len(wordNumbers[k].word) - 1) = wordNumbers[k].word }
        hits == { k \in 1..Len(wordNumbers) : at(k) # {} }
    IN  IF hits = {} THEN None
        ELSE Some(wordNumbers[CHOOSE k \in hits :
                                 \A j \in hits : Min(at(k)) <= Min(at(j))].num)

\* The loop over `wordNumbers` (lines 518-526): the number of the first
\* entry of the table whose word the command includes.
wordCandidateNumber(command) ==
    LET hits == { k \in 1..Len(wordNumbers) : Includes(command, wordNumbers[k].word) }
    IN  IF hits = {} THEN None ELSE Some(wordNumbers[Min(hits)].num)

\* The final value of candidateNumber (line 528).
extractCandidateNumber(command) ==
    LET numeric == numericCandidateNumber(command)
        byWord == wordCandidateNumber(command)
    IN  IF IsFalsyNumber(numeric) /\ byWord # None THEN byWord ELSE numeric

(***************************************************************************)
(* Commands                                                                *)
(***************************************************************************)

\* The voice commands the README documents for each page, with the intent
\* each is documented to have.
VoiceCommands ==
    { [context |-> "login", phrase |-> "Login", intent |-> "Login"],
      [context |-> "login", phrase |-> "Clear", intent |-> "ClearForm"],
      [context |-> "login", phrase |-> "Back", intent |-> "Acknowledge"],
      [context |-> "home", phrase |-> "Go to voting page", intent |-> "NavigateToVoting"],
      [context |-> "home", phrase |-> "Vote now", intent |-> "NavigateToVoting"],
      [context |-> "home", phrase |-> "Read rules", intent |-> "ReadRules"],
      [context |-> "home", phrase |-> "Open profile", intent |-> "OpenProfile"],
      [context |-> "home", phrase |-> "Log out", intent |-> "Logout"],
      [context |-> "home", phrase |-> "Logout", intent |-> "Logout"],
      [context |-> "voting", phrase |-> "Read candidate list", intent |-> "ReadCandidateList"],
      [context |-> "voting", phrase |-> "Go back", intent |-> "GoBack"],
      [context |-> "voting", phrase |-> "Confirm", intent |-> "ConfirmVote"],
      [context |-> "voting", phrase |-> "Cancel", intent |-> "CancelVote"],
      [context |-> "face-verification", phrase |-> "Start verification",
       intent |-> "StartVerification"],
      [context |-> "face-verification", phrase |-> "Start", intent |-> "StartVerification"],
      [context |-> "face-verification", phrase |-> "Try again", intent |-> "RetryVerification"],
      [context |-> "face-verification", phrase |-> "Retry", intent |-> "RetryVerification"] }
    \cup { [context |-> "voting", phrase |-> "Vote for candidate " \o numberToString(n),
            intent |-> "VoteForOrdinal"] : n \in 1..10 }

\* The numbers spoken alone: below the range, candidates on the page, a
\* candidate not on the page, the last of the range, and above it.
BareNumbers == {0, 1, 2, 7, 10, 11}

\* Transcripts: the documented phrases, bare numbers, commands with the
\* keywords of several intents, and commands with no keyword.
Transcripts ==
    { vc.phrase : vc \in VoiceCommands }
    \cup { numberToString(d) : d \in BareNumbers }
    \cup { "Cancel 2", "Verify, confirm!", "confirm and cancel", "go back yes",
           "vote 1 read candidate list", "candidate list back", "number 1",
           "Hello", "  Verify identity " }

\* Object.keys(wordNumbers).some(word => command.includes(word))
hasWordNumber(command) ==
    \E k \in 1..Len(wordNumbers) : Includes(command, wordNumbers[k].word)

\* A gate that lets every command with a number through.
isVoteCommandAlways(command, isVotingVisible) == TRUE

\* A gate without its last condition: a number alone is no vote command.
isVoteCommandExplicit(command, isVotingVisible) ==
    \/ Includes(command, "vote")
    \/ Includes(command, "select")
    \/ Includes(command, "choose")
    \/ (isVotingVisible /\ (Includes(command, "candidate") \/ Includes(command, "number")))
    \/ hasWordNumber(command)

\* isVoteCommand (lines 544-549), for a candidateNumber in 1..10.
isVoteCommand(command, isVotingVisible) ==
    \/ Includes(command, "vote")
    \/ Includes(command, "select")
    \/ Includes(command, "choose")
    \/ (isVotingVisible /\ (Includes(command, "candidate") \/ Includes(command, "number")))
    \/ hasWordNumber(command)
    \/ isVotingVisible

(***************************************************************************)
(* The document                                                            *)
(***************************************************************************)

\* An element: its identity (eid), its tag, id and classes, the attributes
\* and properties the source reads (data-candidate-number, data-action,
\* href, style.display, disabled, value, text content) or writes (aria-label,
\* aria-pressed, title), its click listener, and its ancestors, the nearest
\* first.  data-candidate-number is None when the attribute is absent.
Element ==
    [eid |-> 0, tag |-> "div", id |-> "", classes |-> {}, dcn |-> None,
     action |-> "", href |-> "", display |-> "", disabled |-> FALSE,
     value |-> "", text |-> "", ariaLabel |-> "", ariaPressed |-> "", title |-> "",
     onclick |-> "", anc |-> <<>>]

\* What a selector reads of an ancestor.
AncestorOf(el) == [eid |-> el.eid, id |-> el.id, classes |-> el.classes, dcn |-> el.dcn]

\* el placed inside parent.
Inside(el, parent) == [el EXCEPT !.anc = <<AncestorOf(parent)>> \o parent.anc]

\* The first element of the document, in document order, that is in the
\* set of positions hits: what querySelector and getElementById return.
FirstOf(dom, hits) == IF hits = {} THEN None ELSE Some(dom[Min(hits)])

getElementById(dom, id) == FirstOf(dom, { i \in 1..Len(dom) : dom[i].id = id })

HasClass(el, c) == c \in el.classes

\* querySelector('#<ancId> .<cls>')
queryInIdByClass(dom, ancId, cls) ==
    FirstOf(dom, { i \in 1..Len(dom) :
        /\ HasClass(dom[i], cls)
        /\ \E k \in 1..Len(dom[i].anc) : dom[i].anc[k].id = ancId })

\* querySelector('#<ancId> [data-action="<action>"]')
queryInIdByAction(dom, ancId, action) ==
    FirstOf(dom, { i \in 1..Len(dom) :
        /\ dom[i].action = action
        /\ \E k \in 1..Len(dom[i].anc) : dom[i].anc[k].id = ancId })

\* querySelector('.<ancCls> .<cls>')
queryInClassByClass(dom, ancCls, cls) ==
    FirstOf(dom, { i \in 1..Len(dom) :
        /\ HasClass(dom[i], cls)
        /\ \E k \in 1..Len(dom[i].anc) : HasClass(dom[i].anc[k], ancCls) })

\* querySelectorAll('.<cls>'), in document order
queryAllByClass(dom, cls) == SelectSeq(dom, LAMBDA el : HasClass(el, cls))

\* element.style.display !== 'none', for an element that may be absent
IsShown(opt) == opt # None /\ opt[1].display # "none"

(***************************************************************************)
(* Lookup chains of handleVotingCommands                                   *)
(***************************************************************************)

\* A chain that runs every lookup and keeps the result of the last one
\* that finds an element.
LastFound(chain) ==
    LET hits == { k \in 1..Len(chain) : chain[k] # None }
    IN  IF hits = {} THEN [el |-> None, consulted |-> Len(chain)]
        ELSE [el |-> chain[CHOOSE k \in hits : \A j \in hits : j <= k], consulted |-> Len(chain)]

\* The result of the first lookup of a chain that finds an element, with
\* the number of lookups made: every `if (!btn)` runs the next lookup only
\* when all earlier ones found nothing.
FirstFound(chain) ==
    LET hits == { k \in 1..Len(chain) : chain[k] # None }
    IN  IF hits = {} THEN [el |-> None, consulted |-> Len(chain)]
        ELSE [el |-> chain[Min(hits)], consulted |-> Min(hits)]

\* The lookups for the confirm control of the modal (lines 413-425).
confirmChain(dom) ==
    << getElementById(dom, "modal-confirm-btn"),
       queryInIdByClass(dom, "confirmation-modal", "btn-success"),
       queryInIdByAction(dom, "confirmation-modal", "confirm"),
       queryInClassByClass(dom, "modal-overlay", "btn-success"),
       queryInClassByClass(dom, "modal-content", "btn-success") >>

findConfirmButton(dom) == FirstFound(confirmChain(dom))

\* The lookups for the cancel control of the modal (lines 465-477).
cancelChain(dom) ==
    << getElementById(dom, "modal-cancel-btn"),
       queryInIdByClass(dom, "confirmation-modal", "btn-secondary"),
       queryInIdByAction(dom, "confirmation-modal", "cancel"),
       queryInClassByClass(dom, "modal-overlay", "btn-secondary"),
       queryInClassByClass(dom, "modal-content", "btn-secondary") >>

findCancelButton(dom) == FirstFound(cancelChain(dom))

\* querySelector('[data-candidate-number="<n>"] .btn-vote')
queryVoteInNumbered(dom, n) ==
    FirstOf(dom, { i \in 1..Len(dom) :
        /\ HasClass(dom[i], "btn-vote")
        /\ \E k \in 1..Len(dom[i].anc) : dom[i].anc[k].dcn = Some(numberToString(n)) })

\* querySelector('.card[data-candidate-number="<n>"] .btn-vote')
queryVoteInCard(dom, n) ==
    FirstOf(dom, { i \in 1..Len(dom) :
        /\ HasClass(dom[i], "btn-vote")
        /\ \E k \in 1..Len(dom[i].anc) :
              /\ dom[i].anc[k].dcn = Some(numberToString(n))
              /\ HasClass(dom[i].anc[k], "card") })

\* querySelector('[data-candidate-number="<n>"] button')
queryButtonInNumbered(dom, n) ==
    FirstOf(dom, { i \in 1..Len(dom) :
        /\ dom[i].tag = "button"
        /\ \E k \in 1..Len(dom[i].anc) : dom[i].anc[k].dcn = Some(numberToString(n)) })

\* querySelector('.btn-vote[data-candidate-number="<n>"]')
queryVoteByOwnNumber(dom, n) ==
    FirstOf(dom, { i \in 1..Len(dom) :
        HasClass(dom[i], "btn-vote") /\ dom[i].dcn = Some(numberToString(n)) })

\* btn.closest('[data-candidate-number]')?.getAttribute('data-candidate-number')
closestCandidateNumber(btn) ==
    IF btn.dcn # None THEN btn.dcn
    ELSE LET ks == { k \in 1..Len(btn.anc) : btn.anc[k].dcn # None }
         IN  IF ks = {} THEN None ELSE btn.anc[Min(ks)].dcn

\* A string value that is neither null nor undefined nor empty.
Truthy(opt) == opt # None /\ opt[1] # ""

\* btnNum of the scan of all vote buttons (lines 579-581).
btnNum(btn) ==
    IF Truthy(btn.dcn) THEN btn.dcn
    ELSE IF Truthy(closestCandidateNumber(btn)) THEN closestCandidateNumber(btn)
    ELSE Some(replaceFirst(btn.id, "vote-btn-"))

\* A scan that takes the first vote button with a number, whatever the
\* number.
scanVoteButtonsAnyNumber(dom, n) ==
    FirstOf(dom, { i \in 1..Len(dom) :
        /\ HasClass(dom[i], "btn-vote")
        /\ Truthy(btnNum(dom[i]))
        /\ parseInt(btnNum(dom[i])[1]) # None })

\* The scan of all vote buttons (lines 576-587): the first one, in document
\* order, whose number parses to n.
scanVoteButtons(dom, n) ==
    FirstOf(dom, { i \in 1..Len(dom) :
        /\ HasClass(dom[i], "btn-vote")
        /\ Truthy(btnNum(dom[i]))
        /\ parseInt(btnNum(dom[i])[1]) = Some(n) })

\* The lookups of findVoteButton (lines 557-590).
voteChain(dom, n) ==
    << queryVoteInNumbered(dom, n),
       queryVoteInCard(dom, n),
       queryButtonInNumbered(dom, n),
       queryVoteByOwnNumber(dom, n),
       getElementById(dom, "vote-btn-" \o numberToString(n)),
       scanVoteButtons(dom, n) >>

findVoteButton(dom, n) == FirstFound(voteChain(dom, n))

(***************************************************************************)
(* The stored data                                                         *)
(*                                                                         *)
(* The items of localStorage the page script keeps: the session (the       *)
(* Aadhar number of the user logged in, or no item), the face descriptors  *)
(* by Aadhar number, the vote records in the order they were stored and    *)
(* the has_voted_ items by Aadhar number.  The JSON text of an item stands *)
(* for the value it is parsed to; the time of a vote record is left out.   *)
(***************************************************************************)

\* getCurrentSession(): the item or null
getCurrentSession(st) == st.session

\* setCurrentSession(aadhar)
setCurrentSession(st, aadhar) == [st EXCEPT !.session = Some(aadhar)]

\* localStorage.removeItem(STORAGE_KEYS.SESSION)
removeSession(st) == [st EXCEPT !.session = None]

\* isLoggedIn()
isLoggedIn(st) == getCurrentSession(st) # None

\* storeFaceDescriptor(aadhar, descriptor)
storeFaceDescriptor(st, aadhar, descriptor) ==
    [st EXCEPT !.faceDescriptors =
        [a \in DOMAIN @ \cup {aadhar} |-> IF a = aadhar THEN descriptor ELSE @[a]]]

\* hasUserVoted(aadhar): the item is the text 'true'
hasUserVoted(st, aadhar) == aadhar \in DOMAIN st.hasVoted /\ st.hasVoted[aadhar] = "true"

\* markUserAsVoted(aadhar)
markUserAsVoted(st, aadhar) ==
    [st EXCEPT !.hasVoted = [a \in DOMAIN @ \cup {aadhar} |-> IF a = aadhar THEN "true" ELSE @[a]]]

\* getVotes()
getVotes(st) == st.votes

\* storeVote(aadhar, candidate) in a browser where the setItem calls of the
\* keys in failing throw (the quota is exceeded): the store it leaves and the
\* value it returns.  The first setItem writes the votes, the second, in
\* markUserAsVoted, the has_voted_ item; the catch returns false.
storeVoteResult(st, aadhar, candidate, failing) ==
    LET votes == Append(getVotes(st), [aadhar |-> aadhar, candidate |-> candidate])
        st1 == [st EXCEPT !.votes = votes]
    IN  IF "votes" \in failing THEN [storage |-> st, returned |-> FALSE]
        ELSE IF "has_voted_" \in failing THEN [storage |-> st1, returned |-> FALSE]
        ELSE [storage |-> markUserAsVoted(st1, aadhar), returned |-> TRUE]

\* storeVote(aadhar, candidate) when no write fails
storeVote(st, aadhar, candidate) == storeVoteResult(st, aadhar, candidate, {}).storage

\* The store of a browser in which a user has logged in and nobody has
\* voted.
SignedIn ==
    [session |-> Some("123412341234"), faceDescriptors |-> << >>, votes |-> << >>,
     hasVoted |-> << >>]

(***************************************************************************)
(* What a handler does                                                     *)
(*                                                                         *)
(* A handler is computed over a record r of the document, the branches     *)
(* (intents) it entered, the value of candidateNumber, the effects it had  *)
(* (speech, clicks, lookups, navigation) and the timers it set.            *)
(***************************************************************************)

\* u is the number of the command the effect belongs to: the command that
\* had it, or that set the timer that had it.
Effect(r, op, text, eid, n, k) ==
    [u |-> r.u, op |-> op, text |-> text, eid |-> eid, n |-> n, k |-> k]

\* The eid an effect records for an element that may be absent.
EidOf(opt) == IF opt = None THEN 0 ELSE opt[1].eid

enter(r, intent) == [r EXCEPT !.intents = Append(@, intent)]

\* speak(text)
speak(r, text) == [r EXCEPT !.effects = Append(@, Effect(r, "speak", text, 0, 0, 0))]

\* overlay.remove(): the overlay and everything inside it leave the document.
removeOverlay(dom, overlayEid) ==
    SelectSeq(dom, LAMBDA el :
        /\ el.eid # overlayEid
        /\ \A k \in 1..Len(el.anc) : el.anc[k].eid # overlayEid)

\* The overlay a button of the confirmation dialog closes: its ancestor
\* with the id confirmation-modal.
overlayOf(el) ==
    LET ks == { k \in 1..Len(el.anc) : el.anc[k].id = "confirmation-modal" }
    IN  IF ks = {} THEN 0 ELSE el.anc[Min(ks)].eid

\* el.click(): the click is recorded; the listeners showConfirmation puts on
\* the dialog's buttons remove the overlay and call the dialog's callback.
\* What other listeners do belongs to the host page.
click(r, el) ==
    LET r1 == [r EXCEPT !.effects = Append(@, Effect(r, "click", el.id, el.eid, 0, 0))]
    IN  IF el.onclick \in {"onConfirm", "onCancel"}
        THEN [r1 EXCEPT !.dom = removeOverlay(@, overlayOf(el)),
                        !.effects = Append(@, Effect(r, "callback", el.onclick, el.eid, 0, 0))]
        ELSE r1

\* setTimeout(callback, delay)
setTimeout(r, kind, delay, el, n) ==
    [r EXCEPT !.timers = Append(@, [u |-> r.u, kind |-> kind, delay |-> delay, el |-> el, n |-> n])]

\* redirectTo(page) of the page script: window.location.href = page
redirectTo(r, page) == [r EXCEPT !.effects = Append(@, Effect(r, "redirect", page, 0, 0, 0))]

\* typeof redirectTo === 'function', typeof clearSession === 'function':
\* the pages load the script that defines both.
redirectToDefined == TRUE

clearSessionDefined == TRUE

\* A lookup of a chain, recorded with what it found and how many lookups ran.
lookedUp(r, kind, found, n) ==
    [r EXCEPT !.effects = Append(@, Effect(r, "lookup", kind, EidOf(found.el), n, found.consulted))]

\* input.value = ''
clearValue(r, opt) ==
    IF opt = None THEN r
    ELSE [r EXCEPT !.dom = [i \in 1..Len(@) |->
                               IF @[i].eid = opt[1].eid THEN [@[i] EXCEPT !.value = ""] ELSE @[i]],
                   !.effects = Append(@, Effect(r, "clear", opt[1].id, opt[1].eid, 0, 0))]

(***************************************************************************)
(* Login, home and face verification handlers                              *)
(***************************************************************************)

handleLoginCommands(r, command) ==
    IF Includes(command, "login") \/ Includes(command, "log in")
    THEN LET loginBtn == getElementById(r.dom, "btn-login")
         IN  IF loginBtn # None
             THEN click(speak(enter(r, "Login"), "Logging in..."), loginBtn[1])
             ELSE enter(r, "Login")
    ELSE IF Includes(command, "clear")
    THEN speak(clearValue(clearValue(enter(r, "ClearForm"),
                                     getElementById(r.dom, "aadhar-input")),
                          getElementById(r.dom, "password-input")),
               "Form cleared.")
    ELSE IF Includes(command, "back")
    THEN speak(enter(r, "Acknowledge"), "You are on the login page.")
    ELSE speak(enter(r, "Unrecognized"),
               "Say \"Login\" to proceed, or \"Clear\" to clear the form.")

\* text.replace(/\s+/g, ' '): every run of white space becomes one blank.
RECURSIVE collapseSpaces(_)
collapseSpaces(s) ==
    IF s = "" THEN ""
    ELSE IF IsSpace(CharAt(s, 1))
    THEN " " \o collapseSpaces(SubSeq(s, SkipSpaces(s, 1), Len(s)))
    ELSE CharAt(s, 1) \o collapseSpaces(SubSeq(s, 2, Len(s)))

\* querySelector('main') || querySelector('.container') ||
\* querySelector('.content-center')
mainContent(dom) ==
    LET byTag == FirstOf(dom, { i \in 1..Len(dom) : dom[i].tag = "main" })
        byContainer == FirstOf(dom, { i \in 1..Len(dom) : HasClass(dom[i], "container") })
        byCenter == FirstOf(dom, { i \in 1..Len(dom) : HasClass(dom[i], "content-center") })
    IN  IF byTag # None THEN byTag ELSE IF byContainer # None THEN byContainer ELSE byCenter

readPageContent(r) ==
    LET content == mainContent(r.dom)
    IN  IF content = None THEN speak(r, "No content found to read.")
        ELSE LET cleanText == trim(collapseSpaces(content[1].text))
             IN  IF cleanText # "" THEN speak(r, cleanText)
                 ELSE speak(r, "No content available to read.")

\* card.querySelector('.<cls>')?.textContent || fallback
cardText(dom, card, cls, fallback) ==
    LET found == FirstOf(dom, { i \in 1..Len(dom) :
                     /\ HasClass(dom[i], cls)
                     /\ \E k \in 1..Len(dom[i].anc) : dom[i].anc[k].eid = card.eid })
    IN  IF found # None /\ found[1].text # "" THEN found[1].text ELSE fallback

RECURSIVE candidateListText(_, _, _)
candidateListText(dom, cards, index) ==
    IF index > Len(cards) THEN ""
    ELSE "Candidate " \o numberToString(index) \o ": "
         \o cardText(dom, cards[index], "card-title", "Candidate " \o numberToString(index))
         \o ". " \o cardText(dom, cards[index], "card-subtitle", "")
         \o ". " \o cardText(dom, cards[index], "card-description", "")
         \o ". " \o candidateListText(dom, cards, index + 1)

readCandidateList(r) ==
    LET candidates == queryAllByClass(r.dom, "card")
    IN  IF Len(candidates) = 0 THEN speak(r, "No candidates found.")
        ELSE speak(r, "There are " \o numberToString(Len(candidates)) \o " candidates. "
                      \o candidateListText(r.dom, candidates, 1))

\* clearSession() of the page script (lines 39-41 of part_000), called from
\* a handler.
clearSession(r) ==
    [r EXCEPT !.storage = removeSession(@),
              !.effects = Append(@, Effect(r, "clearSession", "", 0, 0, 0))]

\* A logout that leaves the session stored.
handleLogoutCommandKeepingSession(r) == redirectTo(speak(r, "Logging out..."), "index.html")

\* handleLogoutCommand() (lines 757-767)
handleLogoutCommand(r) ==
    LET r1 == speak(r, "Logging out...")
        r2 == IF clearSessionDefined THEN clearSession(r1) ELSE r1
    IN  redirectTo(r2, "index.html")

handleHomeCommands(r, command) ==
    IF Includes(command, "voting page") \/ Includes(command, "vote now")
       \/ Includes(command, "go to voting")
    THEN LET voteLink == FirstOf(r.dom, { i \in 1..Len(r.dom) :
                             r.dom[i].tag = "a" /\ r.dom[i].href = "voting.html" })
         IN  IF voteLink # None
             THEN click(speak(enter(r, "NavigateToVoting"), "Navigating to voting page..."),
                        voteLink[1])
             ELSE IF redirectToDefined
             THEN redirectTo(enter(r, "NavigateToVoting"), "voting.html")
             ELSE enter(r, "NavigateToVoting")
    ELSE IF Includes(command, "read rules") \/ Includes(command, "rules")
    THEN readPageContent(enter(r, "ReadRules"))
    ELSE IF Includes(command, "log out") \/ Includes(command, "logout")
    THEN handleLogoutCommand(enter(r, "Logout"))
    ELSE IF Includes(command, "profile") \/ Includes(command, "open profile")
    THEN LET profileBtn == getElementById(r.dom, "btn-profile")
         IN  IF profileBtn # None THEN click(enter(r, "OpenProfile"), profileBtn[1])
             ELSE enter(r, "OpenProfile")
    ELSE IF Includes(command, "home")
    THEN speak(enter(r, "Acknowledge"), "You are already on the home page.")
    ELSE speak(enter(r, "Unrecognized"),
               "Say \"Go to voting page\", \"Read rules\", \"Open profile\", or \"Log out\".")

handleFaceVerificationCommands(r, command) ==
    IF Includes(command, "start") \/ Includes(command, "verify") \/ Includes(command, "begin")
    THEN LET startBtn == getElementById(r.dom, "btn-start-verification")
         IN  IF startBtn # None
             THEN click(speak(enter(r, "StartVerification"), "Starting face verification..."),
                        startBtn[1])
             ELSE enter(r, "StartVerification")
    ELSE IF Includes(command, "retry") \/ Includes(command, "try again")
    THEN LET retryBtn == getElementById(r.dom, "btn-retry")
         IN  IF retryBtn # None THEN click(enter(r, "RetryVerification"), retryBtn[1])
             ELSE enter(r, "RetryVerification")
    ELSE speak(enter(r, "Unrecognized"),
               "Say \"Start verification\" to begin face recognition.")

(***************************************************************************)
(* Voting handler                                                          *)
(***************************************************************************)

\* The delays of the setTimeout calls of handleVotingCommands.
RetryDelay == 200

ClickDelay == 300

\* A verify branch that clicks the control whether it is disabled or not.
verifyBranchWhileDisabled(r) ==
    LET verifyBtn == getElementById(r.dom, "btn-verify-face")
    IN  IF verifyBtn # None
        THEN click(speak(r, "Starting identity verification..."), verifyBtn[1])
        ELSE speak(r, "Verify button not found. Please refresh the page.")

\* The verify-identity branch (lines 379-408); it returns in every case.
verifyBranch(r) ==
    LET verifyBtn == getElementById(r.dom, "btn-verify-face")
        verifySection == getElementById(r.dom, "face-verify-section")
        isSectionVisible == verifySection = None \/ verifySection[1].display # "none"
    IN  IF verifyBtn # None
        THEN IF isSectionVisible /\ ~verifyBtn[1].disabled
             THEN click(speak(r, "Starting identity verification..."), verifyBtn[1])
             ELSE IF verifyBtn[1].disabled
             THEN speak(r, "Verification is already in progress. Please wait.")
             ELSE click(speak(r, "Starting identity verification..."), verifyBtn[1])
        ELSE speak(r, "Verify button not found. Please refresh the page.")

\* The confirm branch (lines 411-460); it returns in every case.
confirmBranch(r) ==
    LET found == findConfirmButton(r.dom)
        r1 == lookedUp(r, "confirm", found, 0)
    IN  IF found.el # None
        THEN setTimeout(speak(r1, "Confirming your vote..."),
                        "confirmClick", ClickDelay, found.el, 0)
        ELSE IF IsShown(getElementById(r.dom, "voting-section"))
        THEN speak(r1, "Please select a candidate first by saying \"Vote for candidate\" followed by the number.")
        ELSE r1

\* The cancel branch when the cancel control is found (lines 479-483).
cancelFound(r, found) == click(speak(r, "Vote cancelled."), found.el[1])

\* A vote branch that sets the click timer without speaking first.
voteBranchSilent(r, n) ==
    LET found == findVoteButton(r.dom, n)
        r1 == lookedUp(r, "vote", found, n)
    IN  IF found.el = None
        THEN setTimeout(r1, "retry", RetryDelay, None, n)
        ELSE setTimeout(r1, "voteClick", ClickDelay, found.el, n)

\* The vote branch (lines 553-645) for candidateNumber n.
voteBranch(r, n) ==
    LET found == findVoteButton(r.dom, n)
        r1 == lookedUp(r, "vote", found, n)
    IN  IF found.el = None
        THEN setTimeout(r1, "retry", RetryDelay, None, n)
        ELSE setTimeout(speak(r1, "Voting for candidate " \o numberToString(n) \o "..."),
                        "voteClick", ClickDelay, found.el, n)

\* A help message that does not look at the sections.
votingHelpAnySection(r) ==
    speak(r, "Say \"Verify identity\" to begin, \"Vote for candidate\" followed by the number, or \"Read candidate list\".")

\* The default help message (lines 664-673).
votingHelp(r) ==
    IF IsShown(getElementById(r.dom, "face-verify-section"))
    THEN speak(r, "Say \"Verify identity\" to begin verification, or \"Go back\" to return to home.")
    ELSE IF IsShown(getElementById(r.dom, "voting-section"))
    THEN speak(r, "Say \"Vote for candidate\" followed by the number, \"Read candidate list\", or \"Go back\".")
    ELSE speak(r, "Say \"Verify identity\" to begin, \"Vote for candidate\" followed by the number, or \"Read candidate list\".")

\* What follows the vote branch when it is not taken (lines 648-673).
afterVote(r, command) ==
    IF Includes(command, "read candidate") \/ Includes(command, "candidate list")
       \/ Includes(command, "list candidates")
    THEN readCandidateList(enter(r, "ReadCandidateList"))
    ELSE IF Includes(command, "go back") \/ Includes(command, "back")
            \/ Includes(command, "return")
    THEN IF redirectToDefined
         THEN redirectTo(speak(enter(r, "GoBack"), "Going back to home page..."), "home.html")
         ELSE enter(r, "GoBack")
    ELSE votingHelp(enter(r, "Unrecognized"))

\* A range check without the upper limit.
inCandidateRangeFromOne(c) == c # None /\ c[1] >= 1

\* candidateNumber && candidateNumber >= 1 && candidateNumber <= 10
inCandidateRange(c) == c # None /\ c[1] # 0 /\ c[1] >= 1 /\ c[1] <= 10

\* From the extraction of the candidate number on (lines 489-673).
fromExtraction(r, command) ==
    LET c == extractCandidateNumber(command)
        r1 == [r EXCEPT !.candidateNumber = c]
        isVotingVisible == IsShown(getElementById(r.dom, "voting-section"))
    IN  IF inCandidateRange(c) /\ isVoteCommand(command, isVotingVisible)
        THEN voteBranch(enter(r1, "VoteForOrdinal"), c[1])
        ELSE afterVote(r1, command)

\* The cancel branch (lines 463-487) and what follows it: without a cancel
\* control the branch does not return.
fromCancel(r, command) ==
    IF Includes(command, "cancel") \/ Includes(command, "no")
    THEN LET found == findCancelButton(r.dom)
             r1 == lookedUp(enter(r, "CancelVote"), "cancel", found, 0)
         IN  IF found.el # None THEN cancelFound(r1, found)
             ELSE fromExtraction(r1, command)
    ELSE fromExtraction(r, command)

handleVotingCommands(r, command) ==
    IF Includes(command, "verify identity") \/ Includes(command, "verify")
       \/ Includes(command, "start verification") \/ Includes(command, "begin verification")
    THEN verifyBranch(enter(r, "StartVerification"))
    ELSE IF Includes(command, "confirm") \/ Includes(command, "yes")
            \/ Includes(command, "confirm vote")
    THEN confirmBranch(enter(r, "ConfirmVote"))
    ELSE fromCancel(r, command)

(***************************************************************************)
(* Router                                                                  *)
(***************************************************************************)

\* An override that looks for the verification control and the voting
\* section only.
onVotingPageWithoutContainer(dom) ==
    \/ getElementById(dom, "btn-verify-face") # None
    \/ getElementById(dom, "voting-section") # None

\* verifyBtn || votingSection || candidatesContainer (line 287)
onVotingPage(dom) ==
    \/ getElementById(dom, "btn-verify-face") # None
    \/ getElementById(dom, "voting-section") # None
    \/ getElementById(dom, "candidates-container") # None

\* The switch on currentPage (lines 294-313).
byPageContext(r, page, command) ==
    CASE page = "login" -> handleLoginCommands([r EXCEPT !.handler = "login"], command)
      [] page = "home" -> handleHomeCommands([r EXCEPT !.handler = "home"], command)
      [] page = "voting" -> handleVotingCommands([r EXCEPT !.handler = "voting"], command)
      [] page = "face-verification" ->
            handleFaceVerificationCommands([r EXCEPT !.handler = "face-verification"], command)
      [] OTHER ->
            IF \/ getElementById(r.dom, "btn-verify-face") # None
               \/ getElementById(r.dom, "voting-section") # None
            THEN handleVotingCommands([r EXCEPT !.handler = "voting"], command)
            ELSE r

handleVoiceCommand(r, page, text) ==
    LET command == normalizeCommand(text)
        r1 == [r EXCEPT !.command = command]
    IN  IF onVotingPage(r.dom)
        THEN handleVotingCommands([r1 EXCEPT !.handler = "voting"], command)
        ELSE byPageContext(r1, page, command)

(***************************************************************************)
(* The pages                                                               *)
(*                                                                         *)
(* The page scripts build the document; the engine only queries it.  A     *)
(* page is described by which of its parts are present and in what state,  *)
(* and rendered into a document in document order.                         *)
(***************************************************************************)

\* The confirmation dialog showConfirmation appends to the document: the
\* overlay, its content, title, message and actions, the cancel control and
\* then the confirm control.  The flags of d say which of the ids, classes
\* and data-action attributes a render path gives its elements
\* (showConfirmation gives all of them).
dialogElements(d, base) ==
    LET overlay == [Element EXCEPT !.eid = base,
                        !.id = IF d.overlayId THEN "confirmation-modal" ELSE "",
                        !.classes = IF d.overlayClass THEN {"modal-overlay"} ELSE {}]
        content == Inside([Element EXCEPT !.eid = base + 1,
                        !.classes = IF d.contentClass THEN {"modal-content"} ELSE {}], overlay)
        title == Inside([Element EXCEPT !.eid = base + 2, !.tag = "h2", !.id = "modal-title",
                        !.classes = {"modal-title"}, !.text = "Confirm Your Vote"], content)
        message == Inside([Element EXCEPT !.eid = base + 3, !.tag = "p"], content)
        actions == Inside([Element EXCEPT !.eid = base + 4, !.classes = {"modal-actions"}], content)
        cancelBtn == Inside([Element EXCEPT !.eid = base + 5, !.tag = "button",
                        !.id = IF d.buttonIds THEN "modal-cancel-btn" ELSE "",
                        !.classes = IF d.buttonClasses THEN {"btn", "btn-secondary"} ELSE {"btn"},
                        !.action = IF d.buttonActions THEN "cancel" ELSE "",
                        !.text = "Cancel", !.onclick = "onCancel"], actions)
        confirmBtn == Inside([Element EXCEPT !.eid = base + 6, !.tag = "button",
                        !.id = IF d.buttonIds THEN "modal-confirm-btn" ELSE "",
                        !.classes = IF d.buttonClasses THEN {"btn", "btn-success"} ELSE {"btn"},
                        !.action = IF d.buttonActions THEN "confirm" ELSE "",
                        !.text = "Confirm", !.onclick = "onConfirm"], actions)
    IN  << overlay, content, title, message, actions, cancelBtn, confirmBtn >>

\* The dialog as showConfirmation builds it.
StandardDialog ==
    [overlayId |-> TRUE, overlayClass |-> TRUE, contentClass |-> TRUE,
     buttonIds |-> TRUE, buttonClasses |-> TRUE, buttonActions |-> TRUE]

\* The dialog an element of a dialog belongs to, by the number of the
\* showConfirmation call that built it.
DialogOf(eid) == (eid - 40) \div 10

\* The handleEscape listeners showConfirmation has added to the document for
\* the dialogs in it (line 308 of part_000).
escapeListeners(dom) ==
    LET overlays == SelectSeq(dom, LAMBDA el : el.id = "confirmation-modal")
    IN  [k \in 1..Len(overlays) |-> DialogOf(overlays[k].eid)]

RECURSIVE dialogsElements(_, _)
dialogsElements(ds, j) ==
    IF j > Len(ds) THEN <<>>
    ELSE dialogElements(ds[j], 40 + 10 * j) \o dialogsElements(ds, j + 1)

\* The ways a candidate's vote control carries the candidate's number.
CardStyles == {"card", "plain", "own", "id", "padded"}

\* The elements of the candidate in slot j of the list: its card, if the
\* style has one, and its vote control, inside parents (nearest first).
cardElements(c, j, parents) ==
    LET num == numberToString(c.n)
        within(el) == [el EXCEPT !.anc = @ \o parents]
        card == within([Element EXCEPT !.eid = 20 + 2 * j,
                    !.classes = IF c.style = "plain" THEN {} ELSE {"card"},
                    !.dcn = Some(IF c.style = "padded" THEN "0" \o num ELSE num)])
        button == [Element EXCEPT !.eid = 21 + 2 * j, !.tag = "button", !.text = "Vote",
                    !.onclick = "vote"]
    IN  CASE c.style \in {"card", "padded"} ->
                << card, Inside([button EXCEPT !.classes = {"btn", "btn-vote"}], card) >>
          [] c.style = "plain" -> << card, Inside(button, card) >>
          [] c.style = "own" ->
                << within([button EXCEPT !.classes = {"btn", "btn-vote"}, !.dcn = Some(num)]) >>
          [] c.style = "id" -> << within([button EXCEPT !.id = "vote-btn-" \o num]) >>

RECURSIVE cardsElements(_, _, _)
cardsElements(cards, j, parents) ==
    IF j > Len(cards) THEN <<>>
    ELSE cardElements(cards[j], j, parents) \o cardsElements(cards, j + 1, parents)

\* A section of the voting page in state st ("absent", "shown", "hidden").
sectionElement(eid, id, st) ==
    IF st = "absent" THEN <<>>
    ELSE << [Element EXCEPT !.eid = eid, !.id = id,
                 !.display = IF st = "hidden" THEN "none" ELSE "block"] >>

\* The voting page: the verification section with its control, the voting
\* section with the candidates container and the candidates, the dialogs.
votingDocument(p) ==
    LET verifySection == sectionElement(1, "face-verify-section", p.verifySection)
        verifyBtn ==
            IF p.verifyBtn = "absent" THEN <<>>
            ELSE LET btn == [Element EXCEPT !.eid = 2, !.tag = "button",
                                 !.id = "btn-verify-face", !.disabled = (p.verifyBtn = "disabled"),
                                 !.onclick = "verify"]
                 IN  << IF verifySection = <<>> THEN btn ELSE Inside(btn, verifySection[1]) >>
        votingSection == sectionElement(3, "voting-section", p.votingSection)
        container ==
            IF ~p.container THEN <<>>
            ELSE LET c == [Element EXCEPT !.eid = 4, !.id = "candidates-container"]
                 IN  << IF votingSection = <<>> THEN c ELSE Inside(c, votingSection[1]) >>
        parents ==
            IF container # <<>> THEN <<AncestorOf(container[1])>> \o container[1].anc
            ELSE IF votingSection # <<>> THEN <<AncestorOf(votingSection[1])>>
            ELSE <<>>
    IN  verifySection \o verifyBtn \o votingSection \o container
        \o cardsElements(p.cards, 1, parents) \o dialogsElements(p.dialogs, 1)

\* The login, home and face verification pages: the controls in `controls`
\* are present.
otherDocument(controls) ==
    LET has(c) == c \in controls
        main == [Element EXCEPT !.eid = 30, !.tag = "main", !.text = "Voting  rules "]
    IN  (IF has("main") THEN <<main>> ELSE <<>>)
        \o (IF has("aadhar-input")
            THEN << [Element EXCEPT !.eid = 31, !.tag = "input", !.id = "aadhar-input",
                        !.value = "123412341234"],
                    [Element EXCEPT !.eid = 32, !.tag = "input", !.id = "password-input",
                        !.value = "secret"] >>
            ELSE <<>>)
        \o (IF has("btn-login")
            THEN << [Element EXCEPT !.eid = 33, !.tag = "button", !.id = "btn-login",
                        !.onclick = "login"] >>
            ELSE <<>>)
        \o (IF has("vote-link")
            THEN << [Element EXCEPT !.eid = 34, !.tag = "a", !.href = "voting.html",
                        !.onclick = "navigate"] >>
            ELSE <<>>)
        \o (IF has("btn-profile")
            THEN << [Element EXCEPT !.eid = 35, !.tag = "button", !.id = "btn-profile",
                        !.onclick = "profile"] >>
            ELSE <<>>)
        \o (IF has("btn-start-verification")
            THEN << [Element EXCEPT !.eid = 36, !.tag = "button", !.id = "btn-start-verification",
                        !.onclick = "start"] >>
            ELSE <<>>)
        \o (IF has("btn-retry")
            THEN << [Element EXCEPT !.eid = 37, !.tag = "button", !.id = "btn-retry",
                        !.onclick = "retry"] >>
            ELSE <<>>)

(***************************************************************************)
(* State                                                                   *)
(***************************************************************************)

VARIABLES
    currentPage,      \* the page context of voice.js
    document,         \* the document
    normalized,       \* the normalized command of the last dispatch
    handler,          \* the handler the last dispatch ran ("none": no handler)
    intents,          \* the branches the last dispatch entered, in order
    candidateNumber,  \* candidateNumber of the last run of the voting handler
    effects,          \* what was done since the last dispatch, in order, each
                      \* effect with the number of the command it belongs to
    timers,           \* the pending setTimeout callbacks, oldest first
    handled,          \* the number of commands dispatched so far
    recognition,      \* the recognition engine: its phase ("null" before it is
                      \* created), the last error it signalled and the
                      \* results of its session
    isListening,      \* isListening of voice.js
    isAlwaysOn,       \* isAlwaysOn of voice.js
    runs,             \* the number of times the engine was started
    toggles,          \* the number of times the user toggled voice assistance
                      \* or the page asked the session to start or stop
    localStorage,     \* the items of the browser's localStorage
    keydownListeners  \* the dialogs whose handleEscape is a keydown listener
                      \* of the document, in the order they were added

\* The variables of the listening session.
session == << recognition, isListening, isAlwaysOn, runs, toggles >>

vars == << currentPage, document, normalized, handler, intents,
           candidateNumber, effects, timers, handled, session, localStorage, keydownListeners >>

\* The globals as the script declares them (lines 11-13).
VoiceOff ==
    /\ recognition = [phase |-> "null", error |-> "", results |-> <<>>]
    /\ isListening = FALSE
    /\ isAlwaysOn = FALSE
    /\ runs = 0
    /\ toggles = 0

\* The commands dispatched on one page and the candidates of a page are
\* bounded.
MaxUtterances == 1

MaxCandidates == 2

\* The values the page scripts pass to setCurrentPage, and one more.
Pages == {"login", "home", "voting", "face-verification", "results"}

\* The candidates 1..k, each in a card with its vote control.
RECURSIVE standardCards(_)
standardCards(k) ==
    IF k = 0 THEN <<>> ELSE Append(standardCards(k - 1), [n |-> k, style |-> "card"])

\* Voting pages by which of the three markers they hold.
MarkerPages ==
    [verifyBtn : {"absent", "enabled"}, verifySection : {"absent"},
     votingSection : {"absent", "shown"}, container : BOOLEAN,
     cards : {standardCards(MaxCandidates)}, dialogs : {<<>>}]

\* Voting pages by the stage of the vote: before the face verification (the
\* voting section hidden) and after it (the verification section hidden, its
\* control disabled), with or without the candidates, the dialog open or not.
StagePages ==
    { [verifyBtn |-> IF verified THEN "disabled" ELSE "enabled",
       verifySection |-> IF verified THEN "hidden" ELSE "shown",
       votingSection |-> IF verified THEN "shown" ELSE "hidden",
       container |-> TRUE, cards |-> cards, dialogs |-> dialogs] :
        verified \in BOOLEAN, cards \in {<<>>, standardCards(MaxCandidates)},
        dialogs \in {<<>>, <<StandardDialog>>} }

\* The controls of the login, home and face verification pages.
OtherPages ==
    { {"main", "aadhar-input", "btn-login"}, {"aadhar-input"},
      {"main", "vote-link", "btn-profile"}, {},
      {"btn-start-verification", "btn-retry"} }

Documents ==
    { votingDocument(p) : p \in MarkerPages \cup StagePages }
    \cup { otherDocument(c) : c \in OtherPages }

(***************************************************************************)
(* Operations                                                              *)
(***************************************************************************)

Init ==
    /\ currentPage = "login"
    /\ document \in Documents
    /\ normalized = ""
    /\ handler = "none"
    /\ intents = <<>>
    /\ candidateNumber = None
    /\ effects = <<>>
    /\ timers = <<>>
    /\ handled = 0
    /\ localStorage = SignedIn
    /\ keydownListeners = escapeListeners(document)
    /\ VoiceOff

\* setCurrentPage(page): the page script sets the context as the page loads,
\* before a command is dispatched.
SetCurrentPage(page) ==
    /\ handled = 0
    /\ currentPage' = page
    /\ UNCHANGED << document, normalized, handler, intents, candidateNumber,
                    effects, timers, handled, session, localStorage, keydownListeners >>

\* The state a handler or callback r leaves.
Leaves(r) ==
    /\ document' = r.dom
    /\ normalized' = r.command
    /\ handler' = r.handler
    /\ intents' = r.intents
    /\ candidateNumber' = r.candidateNumber
    /\ effects' = r.effects
    /\ timers' = r.timers
    /\ localStorage' = r.storage
    /\ UNCHANGED keydownListeners

\* handleVoiceCommand(text)
Dispatch(text) ==
    /\ Leaves(handleVoiceCommand(
           [u |-> handled + 1, dom |-> document, command |-> "", handler |-> "none",
            intents |-> <<>>, candidateNumber |-> None, effects |-> <<>>, timers |-> timers,
            storage |-> localStorage],
           currentPage, text))
    /\ handled' = handled + 1
    /\ UNCHANGED << currentPage, session >>

\* A command is dispatched on a page.
HandleVoiceCommand(text) == handled < MaxUtterances /\ Dispatch(text)

\* Timer i may run next: no timer set before it is due at the same time or
\* earlier.
CanFire(i) == \A j \in 1..(i - 1) : timers[j].delay > timers[i].delay

WithoutTimer(i) == SubSeq(timers, 1, i - 1) \o SubSeq(timers, i + 1, Len(timers))

\* The state a callback of timer i starts from.
AtTimer(i) ==
    [u |-> timers[i].u, dom |-> document, command |-> normalized, handler |-> handler,
     intents |-> intents, candidateNumber |-> candidateNumber, effects |-> effects,
     timers |-> WithoutTimer(i), storage |-> localStorage]

\* A retry that sets the retry timer again when it finds nothing.
retryCallbackAgain(r, n) ==
    LET found == findVoteButton(r.dom, n)
        r1 == lookedUp(r, "vote", found, n)
    IN  IF found.el # None
        THEN setTimeout(speak(r1, "Voting for candidate " \o numberToString(n) \o "..."),
                        "retryClick", ClickDelay, found.el, n)
        ELSE setTimeout(r1, "retry", RetryDelay, None, n)

\* The retry of findVoteButton (lines 597-610).
retryCallback(r, n) ==
    LET found == findVoteButton(r.dom, n)
        r1 == lookedUp(r, "vote", found, n)
    IN  IF found.el # None
        THEN setTimeout(speak(r1, "Voting for candidate " \o numberToString(n) \o "..."),
                        "retryClick", ClickDelay, found.el, n)
        ELSE speak(r1, "Candidate " \o numberToString(n)
                       \o " not found. Please check the candidate list or try again.")

RetryTimer ==
    \E i \in 1..Len(timers) :
        /\ timers[i].kind = "retry"
        /\ CanFire(i)
        /\ Leaves(retryCallback(AtTimer(i), timers[i].n))
        /\ UNCHANGED << currentPage, handled, session >>

\* The delayed voteBtn.click() (lines 602-604 and 624-637).
VoteClickTimer ==
    \E i \in 1..Len(timers) :
        /\ timers[i].kind \in {"voteClick", "retryClick"}
        /\ CanFire(i)
        /\ Leaves(click(AtTimer(i), timers[i].el[1]))
        /\ UNCHANGED << currentPage, handled, session >>

\* The delayed confirmBtn.click() (lines 436-449).
ConfirmClickTimer ==
    \E i \in 1..Len(timers) :
        /\ timers[i].kind = "confirmClick"
        /\ CanFire(i)
        /\ Leaves(click(AtTimer(i), timers[i].el[1]))
        /\ UNCHANGED << currentPage, handled, session >>

Next ==
    \/ \E page \in Pages : SetCurrentPage(page)
    \/ \E text \in Transcripts : HandleVoiceCommand(text)
    \/ RetryTimer
    \/ VoteClickTimer
    \/ ConfirmClickTimer

Spec == Init /\ [][Next]_vars

(***************************************************************************)
(* The voting handler on commands that name a candidate                    *)
(***************************************************************************)

\* Commands made of an optional keyword, an optional number and an optional
\* ending: numbers in digits and in words, alone, after each other and
\* after the keywords of the patterns, in and out of the range.
CommandHeads == {"", "vote ", "candidate ", "number", "select ", "choose "}

CommandNumbers == {"", "0", "2", "3", "11", "4th"}

CommandTails == {"", " one", " three one", " candidate 1", " ten"}

NumberTranscripts ==
    { h \o m \o t : h \in CommandHeads, m \in CommandNumbers, t \in CommandTails }

\* The voting page after and before the face verification, no dialog open.
NumberDocuments ==
    { votingDocument([verifyBtn |-> "disabled", verifySection |-> "hidden",
                      votingSection |-> st, container |-> TRUE,
                      cards |-> standardCards(MaxCandidates), dialogs |-> <<>>]) :
        st \in {"shown", "hidden"} }

\* The state after setCurrentPage('voting') on one of these pages.
InitExtract ==
    /\ currentPage = "voting"
    /\ document \in NumberDocuments
    /\ normalized = ""
    /\ handler = "none"
    /\ intents = <<>>
    /\ candidateNumber = None
    /\ effects = <<>>
    /\ timers = <<>>
    /\ handled = 0
    /\ localStorage = SignedIn
    /\ keydownListeners = escapeListeners(document)
    /\ VoiceOff

NextExtract ==
    \/ \E text \in NumberTranscripts : HandleVoiceCommand(text)
    \/ RetryTimer
    \/ VoteClickTimer

SpecExtract == InitExtract /\ [][NextExtract]_vars

(***************************************************************************)
(* The voting handler on pages whose controls are marked up differently    *)
(***************************************************************************)

\* The candidates 1..k with the vote controls in the styles of `styles`.
RECURSIVE styledCards(_, _)
styledCards(styles, k) ==
    IF k = 0 THEN <<>>
    ELSE Append(styledCards(styles, k - 1), [n |-> k, style |-> styles[k]])

\* Dialogs that keep less and less of what showConfirmation gives the
\* overlay and its buttons.
DialogVariants ==
    { StandardDialog,
      [StandardDialog EXCEPT !.buttonIds = FALSE],
      [StandardDialog EXCEPT !.buttonIds = FALSE, !.buttonClasses = FALSE],
      [StandardDialog EXCEPT !.buttonIds = FALSE, !.overlayId = FALSE],
      [StandardDialog EXCEPT !.buttonIds = FALSE, !.overlayId = FALSE,
                             !.overlayClass = FALSE],
      [StandardDialog EXCEPT !.buttonIds = FALSE, !.overlayId = FALSE,
                             !.overlayClass = FALSE, !.contentClass = FALSE] }

ResolveDocuments ==
    { votingDocument([verifyBtn |-> "disabled", verifySection |-> "hidden",
                      votingSection |-> "shown", container |-> TRUE,
                      cards |-> styledCards(styles, MaxCandidates), dialogs |-> dialogs]) :
        styles \in [1..MaxCandidates -> CardStyles],
        dialogs \in {<<>>} \cup { <<d>> : d \in DialogVariants } }

ResolveTranscripts ==
    { "Vote for candidate 1", "2", "Vote for candidate 9", "Confirm", "Cancel" }

InitResolve ==
    /\ currentPage = "voting"
    /\ document \in ResolveDocuments
    /\ normalized = ""
    /\ handler = "none"
    /\ intents = <<>>
    /\ candidateNumber = None
    /\ effects = <<>>
    /\ timers = <<>>
    /\ handled = 0
    /\ localStorage = SignedIn
    /\ keydownListeners = escapeListeners(document)
    /\ VoiceOff

NextResolve ==
    \/ \E text \in ResolveTranscripts : HandleVoiceCommand(text)
    \/ RetryTimer
    \/ VoteClickTimer
    \/ ConfirmClickTimer

SpecResolve == InitResolve /\ [][NextResolve]_vars

(***************************************************************************)
(* The voting handler on a page that is still rendering its candidates     *)
(***************************************************************************)

\* The voting page before and after the face verification, the candidates
\* rendered or not yet, the dialog open or not.
RenderingDocuments ==
    { votingDocument([verifyBtn |-> "disabled", verifySection |-> "hidden",
                      votingSection |-> st, container |-> TRUE,
                      cards |-> cards, dialogs |-> dialogs]) :
        st \in {"shown", "hidden"}, cards \in {<<>>, standardCards(MaxCandidates)},
        dialogs \in {<<>>, <<StandardDialog>>} }

\* The page script renders the candidates into the candidates container
\* ("DOM might still be updating", line 594).
RenderCandidates ==
    LET at == { i \in 1..Len(document) : document[i].id = "candidates-container" }
    IN  /\ at # {}
        /\ \A i \in 1..Len(document) : document[i].onclick # "vote"
        /\ LET i == Min(at)
               cards == cardsElements(standardCards(MaxCandidates), 1,
                            <<AncestorOf(document[i])>> \o document[i].anc)
           IN  document' = SubSeq(document, 1, i) \o cards
                               \o SubSeq(document, i + 1, Len(document))
        /\ UNCHANGED << currentPage, normalized, handler, intents, candidateNumber, session,
                        effects, timers, handled, localStorage, keydownListeners >>

RetryTranscripts ==
    { "Vote for candidate 1", "vote 2", "two", "Select candidate 9", "1", "Read candidate list",
      "Confirm", "Cancel 1", "Hello" }

InitRetry ==
    /\ currentPage = "voting"
    /\ document \in RenderingDocuments
    /\ normalized = ""
    /\ handler = "none"
    /\ intents = <<>>
    /\ candidateNumber = None
    /\ effects = <<>>
    /\ timers = <<>>
    /\ handled = 0
    /\ localStorage = SignedIn
    /\ keydownListeners = escapeListeners(document)
    /\ VoiceOff

NextRetry ==
    \/ \E text \in RetryTranscripts : HandleVoiceCommand(text)
    \/ RenderCandidates
    \/ RetryTimer
    \/ VoteClickTimer
    \/ ConfirmClickTimer

SpecRetry == InitRetry /\ [][NextRetry]_vars

(***************************************************************************)
(* Commands that follow one another within the delay of a click            *)
(***************************************************************************)

MaxBurst == 2

\* The voting page after the verification, the confirmation dialog open or
\* not.
BurstDocuments ==
    { votingDocument([verifyBtn |-> "disabled", verifySection |-> "hidden",
                      votingSection |-> "shown", container |-> TRUE,
                      cards |-> standardCards(MaxCandidates), dialogs |-> dialogs]) :
        dialogs \in {<<>>, <<StandardDialog>>} }

BurstTranscripts ==
    { "Confirm", "Yes", "Vote for candidate 1", "Vote for candidate 2", "two", "Cancel",
      "Read candidate list" }

InitBurst ==
    /\ currentPage = "voting"
    /\ document \in BurstDocuments
    /\ normalized = ""
    /\ handler = "none"
    /\ intents = <<>>
    /\ candidateNumber = None
    /\ effects = <<>>
    /\ timers = <<>>
    /\ handled = 0
    /\ localStorage = SignedIn
    /\ keydownListeners = escapeListeners(document)
    /\ VoiceOff

\* The next command may be dispatched while the clicks the earlier ones
\* scheduled are still pending.
BurstCommand(text) == handled < MaxBurst /\ Dispatch(text)

NextBurst ==
    \/ \E text \in BurstTranscripts : BurstCommand(text)
    \/ VoteClickTimer
    \/ ConfirmClickTimer

SpecBurst == InitBurst /\ [][NextBurst]_vars

(***************************************************************************)
(* The listening session                                                   *)
(*                                                                         *)
(* The recognition engine is the browser's: start() throws unless the      *)
(* engine is inactive, and then the engine signals start; a running engine *)
(* signals results, may signal an error, and signals end after an error,   *)
(* after stop() and when it ends the session on its own.  A session keeps  *)
(* its results: every result event carries the list of all of them.        *)
(* The functions of the script are computed over a record s of the         *)
(* globals, the document, the effects and the timers.                      *)
(***************************************************************************)

\* window.SpeechRecognition || window.webkitSpeechRecognition is defined:
\* a browser without it is one whose engine is in the phase "unsupported".
SpeechRecognitionSupported(s) == s.recognition.phase # "unsupported"

\* recognition is null.
NoRecognition(s) == s.recognition.phase \in {"null", "unsupported"}

ErrorRestartDelay == 500

EndRestartDelay == 300

TransientErrors == {"no-speech", "aborted"}

ErrorKinds == TransientErrors \cup {"not-allowed", "network"}

\* The element document.getElementById(id) returns, changed to what
\* changed[id] says, if there is one.
changeById(dom, id, changed) ==
    LET at == { i \in 1..Len(dom) : dom[i].id = id }
    IN  IF at = {} THEN dom ELSE [dom EXCEPT ![Min(at)] = changed[id][@]]

\* updateVoiceStatus()
updateVoiceStatus(s) ==
    LET status(el) ==
            IF s.isAlwaysOn /\ s.isListening
            THEN [el EXCEPT !.text = "Voice: Listening (Always On)",
                            !.ariaLabel = "Voice assistance is active and listening"]
            ELSE IF s.isAlwaysOn
            THEN [el EXCEPT !.text = "Voice: Starting..."]
            ELSE [el EXCEPT !.text = "Voice: Off", !.ariaLabel = "Voice assistance is off"]
        indicator(el) ==
            IF s.isAlwaysOn /\ s.isListening
            THEN [el EXCEPT !.classes = @ \cup {"listening"}]
            ELSE [el EXCEPT !.classes = @ \ {"listening"}]
        btn(el) ==
            [el EXCEPT !.ariaPressed = IF s.isAlwaysOn THEN "true" ELSE "false",
                       !.title = IF s.isAlwaysOn THEN "Turn off voice assistance"
                                 ELSE "Turn on voice assistance"]
        changed == [id \in {"voice-status-text", "voice-indicator", "btn-voice-toggle"} |->
                       [el \in Range(s.dom) |->
                           CASE id = "voice-status-text" -> status(el)
                             [] id = "voice-indicator" -> indicator(el)
                             [] OTHER -> btn(el)]]
    IN  [s EXCEPT !.dom = changeById(changeById(changeById(@,
                      "voice-status-text", changed), "voice-indicator", changed),
                      "btn-voice-toggle", changed)]

\* initSpeechRecognition(): the engine is created and its handlers are set.
initSpeechRecognition(s) ==
    IF SpeechRecognitionSupported(s) THEN [s EXCEPT !.recognition.phase = "inactive"] ELSE s

\* showVoiceError(message)
showVoiceError(s, message) ==
    [s EXCEPT !.effects = Append(@, Effect(s, "voiceError", message, 0, 0, 0))]

\* recognition.start() throws when the engine is not inactive.
startThrows(s) == s.recognition.phase # "inactive"

\* recognition.start() on an inactive engine: a new session begins.
recognitionStart(s) ==
    [s EXCEPT !.recognition = [phase |-> "starting", error |-> "", results |-> <<>>],
              !.runs = @ + 1]

\* recognition.stop(): an engine that was started will signal end.
recognitionStop(s) ==
    IF s.recognition.phase \in {"starting", "active"}
    THEN [s EXCEPT !.recognition.phase = "ending"]
    ELSE s

\* startListening()
startListening(s) ==
    LET s1 == IF NoRecognition(s) THEN initSpeechRecognition(s) ELSE s
    IN  IF NoRecognition(s1)
        THEN showVoiceError(s1, "Speech recognition is not available in this browser.")
        ELSE IF startThrows(s1)
        THEN s1
        ELSE updateVoiceStatus([recognitionStart(s1) EXCEPT !.isListening = TRUE])

\* stopListening()
stopListening(s) ==
    IF ~NoRecognition(s) /\ s.isListening
    THEN updateVoiceStatus([recognitionStop(s) EXCEPT !.isListening = FALSE])
    ELSE s

\* setAlwaysOnMode(enabled)
setAlwaysOnMode(s, enabled) ==
    LET s1 == [s EXCEPT !.isAlwaysOn = enabled]
    IN  updateVoiceStatus(IF enabled THEN startListening(s1) ELSE stopListening(s1))

\* toggleVoiceAssistance()
toggleVoiceAssistance(s) ==
    IF s.isAlwaysOn
    THEN speak(setAlwaysOnMode(s, FALSE), "Voice assistance turned off.")
    ELSE speak(setAlwaysOnMode(s, TRUE), "Voice assistance turned on. I am listening.")

\* A start handler that does not update the status.
onstartSilently(s) == [s EXCEPT !.isListening = TRUE]

\* recognition.onstart
onstart(s) == updateVoiceStatus([s EXCEPT !.isListening = TRUE])

\* The transcript recognition.onresult dispatches (lines 41-44): the
\* transcripts of all the results of the event, joined by spaces and trimmed.
RECURSIVE joinTranscripts(_)
joinTranscripts(results) ==
    IF results = <<>> THEN ""
    ELSE IF Len(results) = 1 THEN results[1]
    ELSE results[1] \o " " \o joinTranscripts(Tail(results))

transcriptOf(results) == trim(joinTranscripts(results))

\* An error handler that gives the session up on a network error too.
onerrorGivingUp(s, kind) ==
    IF s.isAlwaysOn /\ kind \in TransientErrors
    THEN setTimeout(s, "restartAfterError", ErrorRestartDelay, None, s.runs)
    ELSE IF kind \in {"not-allowed", "network"}
    THEN setAlwaysOnMode(
             speak(s, "Microphone access denied. Please enable microphone permissions."),
             FALSE)
    ELSE s

\* recognition.onerror
onerror(s, kind) ==
    IF s.isAlwaysOn /\ kind \in TransientErrors
    THEN setTimeout(s, "restartAfterError", ErrorRestartDelay, None, s.runs)
    ELSE IF kind = "not-allowed"
    THEN setAlwaysOnMode(
             speak(s, "Microphone access denied. Please enable microphone permissions."),
             FALSE)
    ELSE s

\* An end handler that never sets the restart timer.
onendWithoutRestart(s) == updateVoiceStatus([s EXCEPT !.isListening = FALSE])

\* recognition.onend
onend(s) ==
    LET s1 == updateVoiceStatus([s EXCEPT !.isListening = FALSE])
    IN  IF s1.isAlwaysOn
        THEN setTimeout(s1, "restartAfterEnd", EndRestartDelay, None, s1.runs)
        ELSE s1

\* A callback of the error timer that does not look at isAlwaysOn.
restartAfterErrorAlways(s) ==
    IF ~startThrows(s) THEN recognitionStart(s) ELSE s

\* The callback of the timer onerror sets (lines 63-71).
restartAfterError(s) ==
    IF s.isAlwaysOn /\ ~startThrows(s) THEN recognitionStart(s) ELSE s

\* A callback of the end timer that starts nothing.
restartAfterEndSkipped(s) == s

\* The callback of the timer onend sets (lines 84-90).
restartAfterEnd(s) ==
    IF ~startThrows(s) THEN recognitionStart(s) ELSE s

\* The user toggles voice assistance and the engine fails a bounded number
\* of times; a session delivers a bounded number of results.
MaxToggles == 2

MaxRuns == 2

MaxResults == 2

\* The state a function of the session starts from and the state it leaves.
VoiceState ==
    [u |-> 0, recognition |-> recognition, isListening |-> isListening,
     isAlwaysOn |-> isAlwaysOn, currentPage |-> currentPage, runs |-> runs, dom |-> document,
     effects |-> effects, timers |-> timers, storage |-> localStorage]

VoiceLeaves(s) ==
    /\ recognition' = s.recognition
    /\ isListening' = s.isListening
    /\ isAlwaysOn' = s.isAlwaysOn
    /\ currentPage' = s.currentPage
    /\ runs' = s.runs
    /\ document' = s.dom
    /\ effects' = s.effects
    /\ timers' = s.timers
    /\ localStorage' = s.storage
    /\ UNCHANGED keydownListeners
    /\ UNCHANGED << normalized, handler, intents, candidateNumber, handled >>

\* The user activates the voice toggle.
ToggleVoiceAssistance ==
    /\ toggles < MaxToggles
    /\ VoiceLeaves(toggleVoiceAssistance(VoiceState))
    /\ toggles' = toggles + 1

\* The engine signals start.
OnStart ==
    /\ recognition.phase = "starting"
    /\ VoiceLeaves(onstart([VoiceState EXCEPT !.recognition.phase = "active"]))
    /\ UNCHANGED toggles

\* The engine signals a result: the event carries the results of the
\* session so far.  The handlers of the model do not throw.
OnResult(text) ==
    /\ recognition.phase = "active"
    /\ handled < MaxResults
    /\ LET results == Append(recognition.results, text)
       IN  /\ recognition' = [recognition EXCEPT !.results = results]
           /\ Leaves(handleVoiceCommand(
                  [u |-> handled + 1, dom |-> document, command |-> "", handler |-> "none",
                   intents |-> <<>>, candidateNumber |-> None, effects |-> <<>>,
                   timers |-> timers, storage |-> localStorage],
                  currentPage, transcriptOf(results)))
    /\ handled' = handled + 1
    /\ UNCHANGED << currentPage, isListening, isAlwaysOn, runs, toggles >>

\* The engine signals an error: no speech, an abort or a network failure
\* while it runs, a denied permission as it starts.
OnError(kind) ==
    /\ runs <= MaxRuns
    /\ recognition.phase = IF kind = "not-allowed" THEN "starting" ELSE "active"
    /\ VoiceLeaves(onerror([VoiceState EXCEPT !.recognition.phase = "ending",
                                              !.recognition.error = kind], kind))
    /\ UNCHANGED toggles

\* The engine signals end after an error or after stop().
OnEnd ==
    /\ recognition.phase = "ending"
    /\ VoiceLeaves(onend([VoiceState EXCEPT !.recognition.phase = "inactive"]))
    /\ UNCHANGED toggles

\* The engine ends the session on its own and signals end.
OnSessionEnd ==
    /\ runs <= MaxRuns
    /\ recognition.phase = "active"
    /\ VoiceLeaves(onend([VoiceState EXCEPT !.recognition.phase = "inactive"]))
    /\ UNCHANGED toggles

RestartAfterErrorTimer ==
    \E i \in 1..Len(timers) :
        /\ timers[i].kind = "restartAfterError"
        /\ CanFire(i)
        /\ VoiceLeaves(restartAfterError([VoiceState EXCEPT !.timers = WithoutTimer(i)]))
        /\ UNCHANGED toggles

RestartAfterEndTimer ==
    \E i \in 1..Len(timers) :
        /\ timers[i].kind = "restartAfterEnd"
        /\ CanFire(i)
        /\ VoiceLeaves(restartAfterEnd([VoiceState EXCEPT !.timers = WithoutTimer(i)]))
        /\ UNCHANGED toggles

\* The status text, the indicator and the toggle of the page header.
voiceWidget ==
    << [Element EXCEPT !.eid = 40, !.tag = "span", !.id = "voice-status-text",
                       !.text = "Voice: Off"],
       [Element EXCEPT !.eid = 41, !.tag = "span", !.id = "voice-indicator"],
       [Element EXCEPT !.eid = 42, !.tag = "button", !.id = "btn-voice-toggle",
                       !.onclick = "toggle"] >>

\* The home page, with and without the header.
ListenDocuments ==
    { voiceWidget \o otherDocument({"main", "vote-link", "btn-profile"}),
      otherDocument({"main", "btn-profile"}) }

ListenTranscripts == { "Read rules", "Open profile" }

InitListen ==
    /\ currentPage = "home"
    /\ document \in ListenDocuments
    /\ normalized = ""
    /\ handler = "none"
    /\ intents = <<>>
    /\ candidateNumber = None
    /\ effects = <<>>
    /\ timers = <<>>
    /\ handled = 0
    /\ localStorage = SignedIn
    /\ keydownListeners = escapeListeners(document)
    /\ VoiceOff

NextListen ==
    \/ ToggleVoiceAssistance
    \/ OnStart
    \/ \E text \in ListenTranscripts : OnResult(text)
    \/ \E kind \in ErrorKinds : OnError(kind)
    \/ OnEnd
    \/ OnSessionEnd
    \/ RestartAfterErrorTimer
    \/ RestartAfterEndTimer

SpecListen == InitListen /\ [][NextListen]_vars

\* The session without the results, which leave its variables alone.
NextSession ==
    \/ ToggleVoiceAssistance
    \/ OnStart
    \/ \E kind \in ErrorKinds : OnError(kind)
    \/ OnEnd
    \/ OnSessionEnd
    \/ RestartAfterErrorTimer
    \/ RestartAfterEndTimer

\* The timers run, and the engine signals start after it was started and
\* end after it failed or was stopped.
SpecListenFair ==
    /\ InitListen
    /\ [][NextSession]_vars
    /\ WF_vars(RestartAfterErrorTimer)
    /\ WF_vars(RestartAfterEndTimer)
    /\ WF_vars(OnStart)
    /\ WF_vars(OnEnd)

(***************************************************************************)
(* The page script and the session                                         *)
(***************************************************************************)

WelcomeDelay == 1000

HomeWelcome ==
    "Welcome to the home page. Say \"Go to voting page\", \"Read rules\", \"Open profile\", or \"Log out\"."

VotingWelcome ==
    "You are on the voting page. Say \"Vote for candidate\" followed by the number, or \"Read candidate list\"."

\* setCurrentPage(page)
setCurrentPage(s, page) == [s EXCEPT !.currentPage = page]

\* An initVoiceForPage that starts the session whatever autoStart and
\* isAlwaysOn are.
initVoiceForPageStarting(s, page, autoStart) ==
    setTimeout(setAlwaysOnMode(setCurrentPage(s, page), TRUE), "welcome", WelcomeDelay,
               Some(page), 0)

\* initVoiceForPage(page, autoStart): the timer closes over page.
initVoiceForPage(s, page, autoStart) ==
    LET s1 == setCurrentPage(s, page)
        s2 == IF autoStart /\ ~s1.isAlwaysOn THEN setAlwaysOnMode(s1, TRUE) ELSE s1
    IN  setTimeout(s2, "welcome", WelcomeDelay, Some(page), 0)

\* The callback of the timer initVoiceForPage sets (lines 796-802).
welcome(s, page) ==
    IF page = "home" THEN speak(s, HomeWelcome)
    ELSE IF page = "voting" THEN speak(s, VotingWelcome)
    ELSE s

\* The page script calls initVoiceForPage as the page loads: before a
\* command is dispatched and before the welcome of an earlier call is due or
\* spoken.
InitVoiceForPage(page, autoStart) ==
    /\ handled = 0
    /\ \A i \in 1..Len(timers) : timers[i].kind # "welcome"
    /\ \A e \in Range(effects) : e.text \notin {HomeWelcome, VotingWelcome}
    /\ VoiceLeaves(initVoiceForPage(VoiceState, page, autoStart))
    /\ UNCHANGED toggles

WelcomeTimer ==
    \E i \in 1..Len(timers) :
        /\ timers[i].kind = "welcome"
        /\ CanFire(i)
        /\ VoiceLeaves(welcome([VoiceState EXCEPT !.timers = WithoutTimer(i)], timers[i].el[1]))
        /\ UNCHANGED toggles

\* The page calls startListening() itself: a request like the user's toggle,
\* and counted with it.
StartListening ==
    /\ toggles < MaxToggles
    /\ VoiceLeaves(startListening(VoiceState))
    /\ toggles' = toggles + 1

\* The page calls stopListening() itself, on a session that listens.
StopListening ==
    /\ toggles < MaxToggles
    /\ isListening
    /\ VoiceLeaves(stopListening(VoiceState))
    /\ toggles' = toggles + 1

PagesWithVoice == {"home", "voting"}

\* The home page in a browser with and without a recognition engine.
InitPage ==
    /\ currentPage = "login"
    /\ document = voiceWidget \o otherDocument({"main", "vote-link", "btn-profile"})
    /\ normalized = ""
    /\ handler = "none"
    /\ intents = <<>>
    /\ candidateNumber = None
    /\ effects = <<>>
    /\ timers = <<>>
    /\ handled = 0
    /\ localStorage = SignedIn
    /\ keydownListeners = escapeListeners(document)
    /\ recognition \in { [phase |-> ph, error |-> "", results |-> <<>>] :
                           ph \in {"null", "unsupported"} }
    /\ isListening = FALSE
    /\ isAlwaysOn = FALSE
    /\ runs = 0
    /\ toggles = 0

NextPage ==
    \/ \E page \in PagesWithVoice, autoStart \in BOOLEAN : InitVoiceForPage(page, autoStart)
    \/ \E page \in PagesWithVoice : SetCurrentPage(page)
    \/ WelcomeTimer
    \/ ToggleVoiceAssistance
    \/ StartListening
    \/ StopListening
    \/ OnStart
    \/ \E text \in ListenTranscripts : OnResult(text)
    \/ OnError("not-allowed")
    \/ OnEnd
    \/ RestartAfterEndTimer

SpecPage == InitPage /\ [][NextPage]_vars

(***************************************************************************)
(* Voice commands on the voting page while the session is toggled          *)
(***************************************************************************)

\* The voting page after the verification: before the candidates are
\* rendered, and with the candidates and the confirmation dialog.
StopDocuments ==
    { votingDocument([verifyBtn |-> "disabled", verifySection |-> "hidden",
                      votingSection |-> "shown", container |-> TRUE,
                      cards |-> p[1], dialogs |-> p[2]]) :
        p \in { << <<>>, <<>> >>, << standardCards(MaxCandidates), <<StandardDialog>> >> } }

StopTranscripts == { "Vote for candidate 1", "Confirm" }

InitStop ==
    /\ currentPage = "voting"
    /\ document \in StopDocuments
    /\ normalized = ""
    /\ handler = "none"
    /\ intents = <<>>
    /\ candidateNumber = None
    /\ effects = <<>>
    /\ timers = <<>>
    /\ handled = 0
    /\ localStorage = SignedIn
    /\ keydownListeners = escapeListeners(document)
    /\ VoiceOff

NextStop ==
    \/ ToggleVoiceAssistance
    \/ OnStart
    \/ \E text \in StopTranscripts : OnResult(text)
    \/ \E kind \in TransientErrors : OnError(kind)
    \/ OnEnd
    \/ RestartAfterErrorTimer
    \/ RestartAfterEndTimer
    \/ RetryTimer
    \/ VoteClickTimer
    \/ ConfirmClickTimer

SpecStop == InitStop /\ [][NextStop]_vars

(***************************************************************************)
(* The engine's signals while the session is on                            *)
(***************************************************************************)

\* A command that names a candidate the page has not rendered, a vote
\* command without a number, and a command with no keyword.
SignalTranscripts == { "Vote for candidate 1", "Vote for candidate", "Hello" }

\* The voting page after the verification, its candidates not rendered, once
\* the user has turned voice on and the engine has signalled start.
InitSignals ==
    /\ currentPage = "voting"
    /\ document = votingDocument([verifyBtn |-> "disabled", verifySection |-> "hidden",
                      votingSection |-> "shown", container |-> TRUE,
                      cards |-> <<>>, dialogs |-> <<>>])
    /\ normalized = ""
    /\ handler = "none"
    /\ intents = <<>>
    /\ candidateNumber = None
    /\ effects = << [u |-> 0, op |-> "speak",
                     text |-> "Voice assistance turned on. I am listening.",
                     eid |-> 0, n |-> 0, k |-> 0] >>
    /\ timers = <<>>
    /\ handled = 0
    /\ localStorage = SignedIn
    /\ keydownListeners = escapeListeners(document)
    /\ recognition = [phase |-> "active", error |-> "", results |-> <<>>]
    /\ isListening = TRUE
    /\ isAlwaysOn = TRUE
    /\ runs = 1
    /\ toggles = 1

NextSignals ==
    \/ OnStart
    \/ \E text \in SignalTranscripts : OnResult(text)
    \/ \E kind \in ErrorKinds : OnError(kind)
    \/ OnEnd
    \/ OnSessionEnd
    \/ RestartAfterErrorTimer
    \/ RestartAfterEndTimer
    \/ RetryTimer

SpecSignals == InitSignals /\ [][NextSignals]_vars

(***************************************************************************)
(* A click that throws                                                     *)
(***************************************************************************)

Apology == "Sorry, there was an error processing your command. Please try again."

\* console.error(message, error)
logError(r, message) == [r EXCEPT !.effects = Append(@, Effect(r, "error", message, 0, 0, 0))]

\* An exception no try statement of the script encloses: it leaves the timer
\* callback and is reported to the page.
uncaught(r) == [r EXCEPT !.effects = Append(@, Effect(r, "uncaught", "", 0, 0, 0))]

\* What a handler has done when its el.click() throws: in every handler the
\* click is the last statement (lines 325, 349, 362, 391, 400, 482, 685,
\* 690), so the document is as the handler found it and the click and the
\* callback of the dialog have not happened.
upToClick(r0, r) ==
    [r EXCEPT !.dom = r0.dom,
              !.effects = SelectSeq(@, LAMBDA e : e.op \notin {"click", "callback"})]

\* The catch of recognition.onresult (lines 52-55).
onresultCatch(r) == speak(logError(r, "Error handling voice command:"), Apology)

\* The catch of the delayed click (lines 628-636 and 440-448): el.onclick()
\* or a dispatched click event run what the click would have run.
clickCatch(r, el, message) == click(logError(r, message), el)

\* The handler reaches an el.click().
clicks(r) == \E i \in 1..Len(r.effects) : r.effects[i].op = "click"

\* The run of a dispatch as recognition.onresult starts it.
resultRun(s, n) ==
    [u |-> n, dom |-> s.dom, command |-> "", handler |-> "none",
     intents |-> <<>>, candidateNumber |-> None, effects |-> <<>>, timers |-> s.timers,
     storage |-> s.storage]

\* The engine signals a result and the click of the handler throws.
OnResultThrows(text) ==
    /\ recognition.phase = "active"
    /\ handled < MaxResults
    /\ clicks(handleVoiceCommand(resultRun(VoiceState, handled + 1), currentPage,
                                 transcriptOf(Append(recognition.results, text))))
    /\ recognition' = [recognition EXCEPT !.results = Append(@, text)]
    /\ Leaves(onresultCatch(upToClick(
           resultRun(VoiceState, handled + 1),
           handleVoiceCommand(resultRun(VoiceState, handled + 1), currentPage,
                              transcriptOf(Append(recognition.results, text))))))
    /\ handled' = handled + 1
    /\ UNCHANGED << currentPage, isListening, isAlwaysOn, runs, toggles >>

\* The delayed voteBtn.click() throws: inside a try after a button found at
\* once (lines 624-637), outside any after a retry (lines 602-604).
VoteClickThrows ==
    \E i \in 1..Len(timers) :
        /\ timers[i].kind \in {"voteClick", "retryClick"}
        /\ CanFire(i)
        /\ Leaves(IF timers[i].kind = "voteClick"
                  THEN clickCatch(AtTimer(i), timers[i].el[1], "Error clicking button:")
                  ELSE uncaught(AtTimer(i)))
        /\ UNCHANGED << currentPage, handled, session >>

\* The delayed confirmBtn.click() throws (lines 436-449).
ConfirmClickThrows ==
    \E i \in 1..Len(timers) :
        /\ timers[i].kind = "confirmClick"
        /\ CanFire(i)
        /\ Leaves(clickCatch(AtTimer(i), timers[i].el[1], "Error clicking confirm button:"))
        /\ UNCHANGED << currentPage, handled, session >>

ThrowTranscripts == { "Vote for candidate 1", "Confirm", "Cancel" }

\* The voting page after the verification, before and after its candidates
\* are rendered, once the user has turned voice on and the engine has
\* signalled start.
InitThrow ==
    /\ currentPage = "voting"
    /\ document \in StopDocuments
    /\ normalized = ""
    /\ handler = "none"
    /\ intents = <<>>
    /\ candidateNumber = None
    /\ effects = << [u |-> 0, op |-> "speak",
                     text |-> "Voice assistance turned on. I am listening.",
                     eid |-> 0, n |-> 0, k |-> 0] >>
    /\ timers = <<>>
    /\ handled = 0
    /\ localStorage = SignedIn
    /\ keydownListeners = escapeListeners(document)
    /\ recognition = [phase |-> "active", error |-> "", results |-> <<>>]
    /\ isListening = TRUE
    /\ isAlwaysOn = TRUE
    /\ runs = 1
    /\ toggles = 1

NextThrow ==
    \/ \E text \in ThrowTranscripts : OnResult(text)
    \/ \E text \in ThrowTranscripts : OnResultThrows(text)
    \/ RenderCandidates
    \/ RetryTimer
    \/ VoteClickTimer
    \/ VoteClickThrows
    \/ ConfirmClickTimer
    \/ ConfirmClickThrows

SpecThrow == InitThrow /\ [][NextThrow]_vars

(***************************************************************************)
(* The page script's store and the logout command                          *)
(***************************************************************************)

\* The votes stored are bounded.
MaxVotes == 2

Aadhars == {"123412341234", "567856785678"}

CandidateNames == {"Candidate 1", "Candidate 2"}

StoreTranscripts == {"Log out", "Logout", "Read rules", "Hello"}

\* The page script logs a user in.
SetCurrentSession(aadhar) ==
    /\ ~isLoggedIn(localStorage)
    /\ localStorage' = setCurrentSession(localStorage, aadhar)
    /\ UNCHANGED << currentPage, document, normalized, handler, intents, candidateNumber,
                    effects, timers, handled, session, keydownListeners >>

\* The page script stores the face descriptor of a user.
StoreFaceDescriptor(aadhar) ==
    /\ aadhar \notin DOMAIN localStorage.faceDescriptors
    /\ localStorage' = storeFaceDescriptor(localStorage, aadhar, "descriptor")
    /\ UNCHANGED << currentPage, document, normalized, handler, intents, candidateNumber,
                    effects, timers, handled, session, keydownListeners >>

\* The page script stores a vote.
StoreVote(aadhar, candidate) ==
    /\ Len(getVotes(localStorage)) < MaxVotes
    /\ localStorage' = storeVote(localStorage, aadhar, candidate)
    /\ UNCHANGED << currentPage, document, normalized, handler, intents, candidateNumber,
                    effects, timers, handled, session, keydownListeners >>

\* The home page of a browser in which nobody has logged in or voted.
InitStore ==
    /\ currentPage = "home"
    /\ document = otherDocument({"main", "vote-link", "btn-profile"})
    /\ normalized = ""
    /\ handler = "none"
    /\ intents = <<>>
    /\ candidateNumber = None
    /\ effects = <<>>
    /\ timers = <<>>
    /\ handled = 0
    /\ localStorage = removeSession(SignedIn)
    /\ keydownListeners = escapeListeners(document)
    /\ VoiceOff

NextStore ==
    \/ \E aadhar \in Aadhars : SetCurrentSession(aadhar)
    \/ \E aadhar \in Aadhars : StoreFaceDescriptor(aadhar)
    \/ \E aadhar \in Aadhars, candidate \in CandidateNames : StoreVote(aadhar, candidate)
    \/ \E text \in StoreTranscripts : HandleVoiceCommand(text)

SpecStore == InitStore /\ [][NextStore]_vars

(***************************************************************************)
(* The confirmation dialog and the events of the user                      *)
(*                                                                         *)
(* The page script passes both callbacks.  A dialog is named by the number *)
(* of the showConfirmation call that built it; the callbacks that ran are  *)
(* the "callback" effects, each with an element of its dialog.             *)
(***************************************************************************)

\* The dialogs opened are bounded.
MaxDialogs == 2

FocusDelay == 100

\* The state a listener of the page starts from.
EventState ==
    [u |-> 0, dom |-> document, command |-> normalized, handler |-> handler,
     intents |-> intents, candidateNumber |-> candidateNumber, effects |-> effects,
     timers |-> timers, storage |-> localStorage]

\* The state a listener of the page leaves, with the keydown listeners of
\* the document.
EventLeaves(r, listeners) ==
    /\ document' = r.dom
    /\ effects' = r.effects
    /\ timers' = r.timers
    /\ keydownListeners' = listeners
    /\ UNCHANGED << currentPage, normalized, handler, intents, candidateNumber, handled,
                    session, localStorage >>

\* showConfirmation(message, onConfirm, onCancel), call number j: the modal
\* in the document is removed, the new one appended to the body, and the
\* focus timer set.  The keydown listener is added by the action.
showConfirmation(r, j) ==
    LET existingModal == getElementById(r.dom, "confirmation-modal")
        dom1 == IF existingModal # None THEN removeOverlay(r.dom, existingModal[1].eid)
                ELSE r.dom
        dialog == dialogElements(StandardDialog, 40 + 10 * j)
        r1 == [r EXCEPT !.dom = dom1 \o dialog,
                        !.effects = Append(@, Effect(r, "showConfirmation", "", 40 + 10 * j, j, 0))]
    IN  setTimeout(r1, "focus", FocusDelay, Some(dialog[7]), j)

\* handleEscape of dialog j on an Escape key (lines 301-307); the action
\* removes the listener.
handleEscape(r, j) ==
    [r EXCEPT !.dom = removeOverlay(@, 40 + 10 * j),
              !.effects = Append(@, Effect(r, "callback", "onCancel", 40 + 10 * j, 0, 0))]

\* A keydown event of the Escape key: the listeners run in the order they
\* were added.
RECURSIVE dispatchEscape(_, _)
dispatchEscape(r, listeners) ==
    IF listeners = <<>> THEN r
    ELSE dispatchEscape(handleEscape(r, Head(listeners)), Tail(listeners))

\* The click listener of the overlay, for a click on the overlay itself
\* (lines 311-316).
overlayClick(r, el) ==
    [r EXCEPT !.dom = removeOverlay(@, el.eid),
              !.effects = Append(@, Effect(r, "callback", "onCancel", el.eid, 0, 0))]

\* The dialogs opened so far.
Shown == Len(SelectSeq(effects, LAMBDA e : e.op = "showConfirmation"))

\* The page script opens a dialog.
ShowConfirmation ==
    /\ Shown < MaxDialogs
    /\ EventLeaves(showConfirmation(EventState, Shown + 1), Append(keydownListeners, Shown + 1))

\* The user clicks the confirm control of the dialog in the document.
ClickConfirm ==
    \E i \in 1..Len(document) :
        /\ document[i].onclick = "onConfirm"
        /\ EventLeaves(click(EventState, document[i]), keydownListeners)

\* The user clicks the cancel control of the dialog in the document.
ClickCancel ==
    \E i \in 1..Len(document) :
        /\ document[i].onclick = "onCancel"
        /\ EventLeaves(click(EventState, document[i]), keydownListeners)

\* The user clicks the overlay of the dialog in the document.
ClickOverlay ==
    \E i \in 1..Len(document) :
        /\ document[i].id = "confirmation-modal"
        /\ EventLeaves(overlayClick(EventState, document[i]), keydownListeners)

\* The user presses Escape while the document has keydown listeners.
PressEscape ==
    /\ keydownListeners # <<>>
    /\ EventLeaves(dispatchEscape(EventState, keydownListeners), <<>>)

\* The focus timer of showConfirmation runs: confirmBtn.focus().
FocusTimer ==
    \E i \in 1..Len(timers) :
        /\ timers[i].kind = "focus"
        /\ CanFire(i)
        /\ EventLeaves([EventState EXCEPT !.timers = WithoutTimer(i)], keydownListeners)

\* The voting page after the verification with its candidates, no dialog
\* open.
InitDialog ==
    /\ currentPage = "voting"
    /\ document = votingDocument([verifyBtn |-> "disabled", verifySection |-> "hidden",
                      votingSection |-> "shown", container |-> TRUE,
                      cards |-> standardCards(MaxCandidates), dialogs |-> <<>>])
    /\ normalized = ""
    /\ handler = "none"
    /\ intents = <<>>
    /\ candidateNumber = None
    /\ effects = <<>>
    /\ timers = <<>>
    /\ handled = 0
    /\ localStorage = SignedIn
    /\ keydownListeners = <<>>
    /\ VoiceOff

NextDialog ==
    \/ ShowConfirmation
    \/ ClickConfirm
    \/ ClickCancel
    \/ ClickOverlay
    \/ PressEscape
    \/ FocusTimer

SpecDialog == InitDialog /\ [][NextDialog]_vars

(***************************************************************************)
(* Votes stored while writes of localStorage may fail                      *)
(***************************************************************************)

\* The keys storeVote writes.
WrittenKeys == {"votes", "has_voted_"}

\* The call of storeVote and the value it returned, as an effect.
stored(log, aadhar, returned) ==
    Append(log, [u |-> 0, op |-> "storeVote", text |-> aadhar, eid |-> 0,
                 n |-> IF returned THEN 1 ELSE 0, k |-> 0])

\* The page script stores a vote; the writes of the keys in failing throw.
StoreVoteReturns(aadhar, candidate, failing) ==
    /\ Len(effects) < MaxVotes
    /\ LET result == storeVoteResult(localStorage, aadhar, candidate, failing)
       IN  /\ localStorage' = result.storage
           /\ effects' = stored(effects, aadhar, result.returned)
    /\ UNCHANGED << currentPage, document, normalized, handler, intents, candidateNumber,
                    timers, handled, session, keydownListeners >>

NextWrites ==
    \E aadhar \in Aadhars, candidate \in CandidateNames, failing \in SUBSET WrittenKeys :
        StoreVoteReturns(aadhar, candidate, failing)

SpecWrites == InitStore /\ [][NextWrites]_vars

(***************************************************************************)
(* Properties                                                              *)
(***************************************************************************)

\* One of the three voting-page markers is in the document.
MarkerPresent ==
    \E i \in 1..Len(document) :
        document[i].id \in {"btn-verify-face", "voting-section", "candidates-container"}

\* The voting section is in the document and not hidden.
VotingSectionVisible ==
    \E i \in 1..Len(document) :
        document[i].id = "voting-section" /\ document[i].display # "none"

\* The last command holds one of the keywords kws.
Mentions(kws) == \E kw \in kws : Includes(normalized, kw)

\* What the last command and the timers it set did.
CommandEffects == SelectSeq(effects, LAMBDA e : e.u = handled)

\* The timers the last command set that have not run yet.
CommandTimers == SelectSeq(timers, LAMBDA t : t.u = handled)

\* The candidates the last command and its timers looked up a vote control
\* for.
VoteAttempts ==
    { e.n : e \in { f \in Range(CommandEffects) : f.op = "lookup" /\ f.text = "vote" } }

\* The words of the numbers one to ten, in the order of the table.
NumberWords ==
    << "one", "two", "three", "four", "five", "six", "seven", "eight", "nine", "ten" >>

WordsMentioned == { k \in 1..Len(NumberWords) : Includes(normalized, NumberWords[k]) }

NoDigits == \A i \in 1..Len(normalized) : ~IsDigit(CharAt(normalized, i))

\* The contexts the router has a handler for.
HandledContexts == {"login", "home", "voting", "face-verification"}

\* C1: whatever the stored page context and the command, a dispatch with
\* one of the three voting-page markers in the document runs the voting
\* handler and no other; with none of them the handler is the one of the
\* stored context, and no handler runs when the context has none.
C1_ContextOverride ==
    [][ handled' # handled =>
          IF MarkerPresent
          THEN handler' = "voting"
          ELSE handler' = IF currentPage \in HandledContexts THEN currentPage ELSE "none"
      ]_vars

\* A command dispatched in the login context was handled by the voting
\* handler, on a page whose only marker is the candidates container.
C1_Witness ==
    /\ handled > 0
    /\ currentPage = "login"
    /\ handler = "voting"
    /\ \A i \in 1..Len(document) : document[i].id \notin {"btn-verify-face", "voting-section"}

\* The intent the order verification, confirm, cancel, vote, read list, go
\* back, help gives the last command.
EarliestVotingIntent ==
    IF Mentions({"verify identity", "verify", "start verification", "begin verification"})
    THEN "StartVerification"
    ELSE IF Mentions({"confirm", "yes", "confirm vote"}) THEN "ConfirmVote"
    ELSE IF Mentions({"cancel", "no"}) THEN "CancelVote"
    ELSE IF /\ inCandidateRange(extractCandidateNumber(normalized))
            /\ isVoteCommand(normalized, VotingSectionVisible)
    THEN "VoteForOrdinal"
    ELSE IF Mentions({"read candidate", "candidate list", "list candidates"})
    THEN "ReadCandidateList"
    ELSE IF Mentions({"go back", "back", "return"}) THEN "GoBack"
    ELSE "Unrecognized"

\* C2: a command the voting handler handles yields one intent, the earliest
\* in the order verification, confirm, cancel, vote for a candidate, read
\* the candidate list, go back, help whose keywords it holds, whether or not
\* the target of that intent is in the document; a command with a cancel
\* keyword never leads to a vote attempt.
C2_FirstMatchWins ==
    (handled > 0 /\ handler = "voting") =>
        /\ intents = << EarliestVotingIntent >>
        /\ (Mentions({"cancel", "no"}) =>
               "VoteForOrdinal" \notin Range(intents) /\ VoteAttempts = {})

\* C3: each phrase the README documents for a context, dispatched to the
\* handler of that context, selects the documented intent and no other;
\* "back" in the login context is answered by speech only and "go back" in
\* the voting context navigates to the home page.
C3_KeywordTable ==
    \A vc \in VoiceCommands :
        (handled > 0 /\ handler = vc.context /\ normalized = normalizeCommand(vc.phrase)) =>
            /\ intents = << vc.intent >>
            /\ (vc.intent = "Acknowledge" =>
                   \A e \in Range(CommandEffects) : e.op = "speak")
            /\ (vc.intent = "GoBack" =>
                   \E e \in Range(CommandEffects) :
                       e.op = "redirect" /\ e.text = "home.html")

\* C4: the voting handler looks up a vote control for candidate n only if
\* n is the number it extracted from the command and the command holds
\* "vote", "select" or "choose", or the voting section is visible and the
\* command holds "candidate" or "number", or the command holds a number
\* word, or the voting section is visible; a command with neither a digit
\* nor a number word never leads to a vote attempt.
C4_VoteGate ==
    (handled > 0 /\ handler = "voting") =>
        /\ VoteAttempts # {} =>
              /\ candidateNumber # None
              /\ VoteAttempts = {candidateNumber[1]}
              /\ \/ Mentions({"vote", "select", "choose"})
                 \/ (VotingSectionVisible /\ Mentions({"candidate", "number"}))
                 \/ WordsMentioned # {}
                 \/ VotingSectionVisible
        /\ (NoDigits /\ WordsMentioned = {} => VoteAttempts = {})
        /\ ("VoteForOrdinal" \in Range(intents) <=> VoteAttempts # {})

\* The command "one" led to a vote attempt for candidate 1 while the voting
\* section was hidden: the number word opened the gate.
C4_Witness ==
    /\ handled > 0
    /\ normalized = "one"
    /\ ~VotingSectionVisible
    /\ VoteAttempts = {1}

\* The number a command spells, for a command that is a number from 1 to
\* 10 in digits and nothing else.
BareNumber == { d \in 1..10 : numberToString(d) = normalized }

\* C5: a command that is only a number d from 1 to 10 leads to a vote
\* attempt for candidate d when it is dispatched with the voting section
\* present and visible; dispatched in the home context with no voting-page
\* marker in the document it leads to the spoken help of the home page and
\* to nothing else.
C5_BareNumberByContext ==
    (handled > 0 /\ BareNumber # {}) =>
        /\ VotingSectionVisible =>
              /\ intents = << "VoteForOrdinal" >>
              /\ VoteAttempts = BareNumber
        /\ (currentPage = "home" /\ ~MarkerPresent) =>
              /\ intents = << "Unrecognized" >>
              /\ VoteAttempts = {}
              /\ CommandTimers = <<>>
              /\ Len(CommandEffects) = 1
              /\ CommandEffects[1].op = "speak"
              /\ CommandEffects[1].text =
                    "Say \"Go to voting page\", \"Read rules\", \"Open profile\", or \"Log out\"."

\* The command "7" led to a vote attempt for candidate 7 on a page whose
\* voting section is visible.
C5_Witness ==
    /\ handled > 0
    /\ normalized = "7"
    /\ VotingSectionVisible
    /\ VoteAttempts = {7}

\* The vote controls the last command and its timers clicked.
VoteControlsClicked ==
    { i \in 1..Len(document) :
        /\ document[i].onclick = "vote"
        /\ \E k \in 1..Len(effects) :
              effects[k].op = "click" /\ effects[k].eid = document[i].eid }

\* C6: a voice command never clicks the vote control of a candidate while
\* the voting section is absent or hidden.
C6_NoVoteClickBeforeVerification ==
    VoteControlsClicked # {} => VotingSectionVisible

\* The number of candidates in the document.
NumCandidates ==
    Cardinality({ i \in 1..Len(document) : document[i].onclick = "vote" })

\* C7 as stated: a vote is attempted for candidate n only when n is from 1
\* to the number of candidates in the document.
C7_RangeOfCandidatesOnPage ==
    \A n \in VoteAttempts : 1 <= n /\ n <= NumCandidates

\* C7: a vote is attempted for candidate n only when n is from 1 to 10, the
\* range the handler checks whatever the number of candidates in the
\* document; a number extracted outside 1..10 is never a vote target.
C7_FixedRange ==
    (handled > 0 /\ handler = "voting") =>
        /\ \A n \in VoteAttempts : 1 <= n /\ n <= 10
        /\ (candidateNumber # None /\ candidateNumber[1] \notin 1..10 => VoteAttempts = {})

\* A vote was attempted for candidate 10 on a page with fewer candidates.
C7_Witness ==
    /\ handled > 0
    /\ VoteAttempts = {10}
    /\ NumCandidates < 10

\* The voting handler got as far as extracting the candidate number.
ExtractionReached ==
    /\ handled > 0
    /\ handler = "voting"
    /\ Range(intents) \cap {"VoteForOrdinal", "ReadCandidateList", "GoBack", "Unrecognized"} # {}

\* The patterns that match the last command.
PatternsMatching == { k \in 1..Len(patterns) : match(normalized, patterns[k]) # None }

\* C8: the number extracted is the integer captured by the first of the
\* patterns candidate N, number N, vote N, select N, choose N, standalone
\* number that matches, wherever the matches are in the command; the number
\* words count only when no pattern matches; a command with neither has no
\* candidate number.
C8_NumericPatternPriority ==
    ExtractionReached =>
        IF PatternsMatching # {}
        THEN candidateNumber = parseInt(match(normalized, patterns[Min(PatternsMatching)])[1])
        ELSE IF WordsMentioned # {}
        THEN candidateNumber \in { Some(k) : k \in WordsMentioned }
        ELSE candidateNumber = None

\* C9: for a command without digits that holds several of the words one to
\* ten, the number extracted is that of the word that comes first in the
\* table one, two, ..., ten, not that of the word that comes first in the
\* command.
C9_WordNumberTableOrder ==
    (ExtractionReached /\ NoDigits /\ WordsMentioned # {}) =>
        candidateNumber = Some(Min(WordsMentioned))

\* "three one" gave candidate 1.
C9_Witness ==
    /\ ExtractionReached
    /\ normalized = "three one"
    /\ candidateNumber = Some(1)
    /\ VoteAttempts = {1}

\* The effects of a step: all the effects of a dispatch, the effects a timer
\* adds.
NewEffects ==
    IF handled' # handled THEN effects'
    ELSE SubSeq(effects', Len(effects) + 1, Len(effects'))

\* The results of the lookups of a chain, one by one, in the document.
ChainResults(kind, n) ==
    CASE kind = "vote" -> voteChain(document, n)
      [] kind = "confirm" -> confirmChain(document)
      [] kind = "cancel" -> cancelChain(document)

\* C10: a lookup of a vote control, of the confirm control or of the cancel
\* control returns the result of the first lookup of its chain that finds
\* an element and runs no later lookup; it returns nothing only when every
\* lookup of the chain finds nothing, so that an element only the last
\* lookup finds is returned.
C10_ResolutionChains ==
    [][ \A k \in 1..Len(NewEffects) :
          NewEffects[k].op = "lookup" =>
              LET e == NewEffects[k]
                  chain == ChainResults(e.text, e.n)
              IN  /\ e.k \in 1..Len(chain)
                  /\ \A j \in 1..(e.k - 1) : chain[j] = None
                  /\ e.eid = EidOf(chain[e.k])
                  /\ (e.eid = 0 => e.k = Len(chain))
                  /\ ((\E j \in 1..Len(chain) : chain[j] # None) => e.eid # 0)
      ]_vars

\* A vote control was found by the last lookup of its chain, the scan of
\* all vote controls, after the five lookups before it found nothing.
C10_Witness ==
    \E k \in 1..Len(effects) :
        /\ effects[k].op = "lookup"
        /\ effects[k].text = "vote"
        /\ effects[k].k = 6
        /\ effects[k].eid # 0

\* The lookups of a vote control the last command and its retry made.
VoteLookups ==
    SelectSeq(CommandEffects, LAMBDA e : e.op = "lookup" /\ e.text = "vote")

\* The last command said text.
Said(text) == \E e \in Range(CommandEffects) : e.op = "speak" /\ e.text = text

\* The last command clicked the element eid.
Clicked(eid) == \E e \in Range(CommandEffects) : e.op = "click" /\ e.eid = eid

\* The timers of kind `kind` the last command has pending.
Pending(kind) == SelectSeq(CommandTimers, LAMBDA t : t.kind = kind)

\* C11: for one vote command the vote control is looked up at most twice,
\* at once and, only when that lookup found nothing, once more by the one
\* retry timer; a control the second lookup finds is clicked (after the
\* click delay); when the second lookup finds nothing either, "Candidate n
\* not found" is spoken and the command leaves no timer behind.
C11_BoundedRetry ==
    (handled > 0 /\ handler = "voting") =>
        /\ Len(VoteLookups) + Len(Pending("retry")) <= 2
        /\ Len(Pending("retry")) <= 1
        /\ (Len(Pending("retry")) = 1 => Len(VoteLookups) = 1 /\ VoteLookups[1].eid = 0)
        /\ (Len(VoteLookups) = 2 =>
              /\ VoteLookups[1].eid = 0
              /\ VoteLookups[2].n = VoteLookups[1].n
              /\ IF VoteLookups[2].eid # 0
                 THEN \/ Clicked(VoteLookups[2].eid) /\ CommandTimers = <<>>
                      \/ /\ Len(CommandTimers) = 1
                         /\ CommandTimers[1].kind = "retryClick"
                         /\ CommandTimers[1].delay = ClickDelay
                         /\ EidOf(CommandTimers[1].el) = VoteLookups[2].eid
                 ELSE /\ Said("Candidate " \o numberToString(VoteLookups[2].n)
                               \o " not found. Please check the candidate list or try again.")
                      /\ CommandTimers = <<>>)

\* The first lookup found nothing, the candidates were rendered, the retry
\* found the control of candidate 1 and the control was clicked.
C11_Witness ==
    /\ Len(VoteLookups) = 2
    /\ VoteLookups[1].eid = 0
    /\ VoteLookups[2].eid # 0
    /\ VoteLookups[2].n = 1
    /\ Clicked(VoteLookups[2].eid)

\* What a command does that the user can notice, speech apart.
ActionOps == {"click", "callback", "redirect", "clear", "clearSession"}

\* C12: a command whose intent a handler recognised never ends with no
\* speech and no action: when the control it needs is not in the document,
\* the failure is spoken.
C12_NotFoundIsSpoken ==
    (handled > 0 /\ intents # <<>>) =>
        \/ \E e \in Range(CommandEffects) : e.op = "speak" \/ e.op \in ActionOps
        \/ CommandTimers # <<>>

\* The timers a step sets and the timers that run in it.
TimersSet == Range(timers') \ Range(timers)

TimersRun == Range(timers) \ Range(timers')

VoteClickKinds == {"voteClick", "retryClick"}

\* C13: a click on the vote control of candidate n is only ever scheduled
\* by a step that has just looked that control up for n and then said
\* "Voting for candidate n...", and a vote control is clicked only by such a
\* scheduled click: the feedback comes strictly before the click and the
\* control clicked is the one resolved for n.
C13_FeedbackBeforeInvocation ==
    [][ /\ \A t \in TimersSet :
              t.kind \in VoteClickKinds =>
                  \E j, m \in 1..Len(NewEffects) :
                      /\ j < m
                      /\ NewEffects[j].op = "lookup" /\ NewEffects[j].text = "vote"
                      /\ NewEffects[j].n = t.n /\ NewEffects[j].u = t.u
                      /\ NewEffects[j].eid # 0 /\ NewEffects[j].eid = EidOf(t.el)
                      /\ NewEffects[m].op = "speak" /\ NewEffects[m].u = t.u
                      /\ NewEffects[m].text =
                            "Voting for candidate " \o numberToString(t.n) \o "..."
        /\ \A k \in 1..Len(NewEffects) :
              (/\ NewEffects[k].op = "click"
               /\ \E i \in 1..Len(document) :
                      document[i].eid = NewEffects[k].eid /\ document[i].onclick = "vote") =>
                  \E t \in TimersRun :
                      /\ t.kind \in VoteClickKinds
                      /\ EidOf(t.el) = NewEffects[k].eid
                      /\ t.u = NewEffects[k].u
      ]_vars

\* "vote 2": the control of candidate 2 was looked up and found at once,
\* "Voting for candidate 2..." was said, and then the control was clicked.
C13_Witness ==
    \E j, m, k \in 1..Len(effects) :
        /\ j < m /\ m < k
        /\ effects[j].op = "lookup" /\ effects[j].text = "vote" /\ effects[j].n = 2
        /\ effects[j].eid # 0
        /\ effects[m].op = "speak" /\ effects[m].text = "Voting for candidate 2..."
        /\ effects[k].op = "click" /\ effects[k].eid = effects[j].eid

\* C14: the command dispatched for a result event is the utterance newly
\* recognised in that event, the last result of the session, and the
\* intents entered are the ones that utterance alone would enter; the
\* earlier results of the session are no part of it.
C14_UtteranceIsolation ==
    [][ handled' # handled =>
            LET text == recognition'.results[Len(recognition'.results)]
                alone == handleVoiceCommand(
                             [u |-> handled + 1, dom |-> document, command |-> "",
                              handler |-> "none", intents |-> <<>>, candidateNumber |-> None,
                              effects |-> <<>>, timers |-> timers],
                             currentPage, text)
            IN  /\ normalized' = normalizeCommand(text)
                /\ intents' = alone.intents
      ]_vars

\* C15: a control is clicked only while handling the latest command
\* dispatched, only while it is in the document, and never by two commands:
\* no click reaches a control after a later command was dispatched or after
\* the control was removed, and two commands never click the same control.
C15_NoStaleActionTargets ==
    [][ \A k \in 1..Len(NewEffects) :
            NewEffects[k].op = "click" =>
                /\ NewEffects[k].u = handled'
                /\ \E i \in 1..Len(document) : document[i].eid = NewEffects[k].eid
                /\ \A e \in Range(effects) :
                       (e.op = "click" /\ e.eid = NewEffects[k].eid) => e.u = NewEffects[k].u
      ]_vars

\* The status the page shows, "" on a page without the status text.
StatusText ==
    LET at == { i \in 1..Len(document) : document[i].id = "voice-status-text" }
    IN  IF at = {} THEN "" ELSE document[Min(at)].text

\* C16: toggle() from Idle with always-on off sets always-on and leaves the
\* session Starting, not Listening; isListening and the status shown turn to
\* Listening only in the step in which the engine signals start.
C16_ListeningOnlyAfterStarted ==
    [][ /\ (toggles' # toggles /\ ~isAlwaysOn /\ ~isListening) =>
               /\ isAlwaysOn'
               /\ ~isListening'
               /\ StatusText' # "Voice: Listening (Always On)"
        /\ (\/ isListening' /\ ~isListening
            \/ /\ StatusText' = "Voice: Listening (Always On)"
               /\ StatusText # "Voice: Listening (Always On)") =>
               (recognition.phase = "starting" /\ recognition'.phase = "active")
      ]_vars

\* The restart timers pending for run f of the engine.
RestartsPending(f) ==
    { i \in 1..Len(timers) :
        timers[i].kind \in {"restartAfterError", "restartAfterEnd"} /\ timers[i].n = f }

\* C17: after the engine has failed with no-speech or aborted while
\* always-on is set, at most one restart is pending for that failure, the
\* timers of the error signal and of the end signal that follows it counted
\* together.
C17_OneRestartPerFailure ==
    (recognition.error \in TransientErrors /\ isAlwaysOn) =>
        Cardinality(RestartsPending(runs)) <= 1

\* The last thing the session did that the user can hear is the explanation
\* of the denied permission: the engine has signalled not-allowed and the
\* user has not toggled voice assistance since.
DeniedMessage == "Microphone access denied. Please enable microphone permissions."

PermissionDenied ==
    /\ effects # <<>>
    /\ effects[Len(effects)].op = "speak"
    /\ effects[Len(effects)].text = DeniedMessage

\* C18: the step in which the engine signals not-allowed speaks the
\* explanation, clears always-on, leaves the session Idle and sets no timer;
\* and from then on the engine is started again only by a step in which the
\* user toggles voice assistance, not by a timer.
C18_PermissionDeniedIsTerminal ==
    [][ /\ (recognition.error # "not-allowed" /\ recognition'.error = "not-allowed") =>
               /\ PermissionDenied'
               /\ ~isAlwaysOn'
               /\ ~isListening'
               /\ TimersSet = {}
        /\ (PermissionDenied /\ runs' # runs) => toggles' # toggles
      ]_vars

\* The engine signals end in this step.
EndSignalled == recognition.phase \in {"ending", "active"} /\ recognition'.phase = "inactive"

\* C19: the step in which the engine signals end leaves the session not
\* Listening; with always-on set it sets exactly one timer, the restart
\* after EndRestartDelay, and with always-on clear it sets none and leaves
\* the session Idle, the status Off.
C19_EndedSignal ==
    [][ EndSignalled =>
            /\ ~isListening'
            /\ StatusText' # "Voice: Listening (Always On)"
            /\ isAlwaysOn' = isAlwaysOn
            /\ IF isAlwaysOn
               THEN /\ Len(timers') = Len(timers) + 1
                    /\ SubSeq(timers', 1, Len(timers)) = timers
                    /\ timers'[Len(timers')].kind = "restartAfterEnd"
                    /\ timers'[Len(timers')].delay = EndRestartDelay
               ELSE /\ timers' = timers
                    /\ StatusText' \in {"Voice: Off", ""}
      ]_vars

\* With always-on set the engine has signalled end: the session is not
\* Listening and the restart of this run is pending.
C19_Witness ==
    /\ recognition.phase = "inactive"
    /\ isAlwaysOn
    /\ ~isListening
    /\ \E i \in 1..Len(timers) : timers[i].kind = "restartAfterEnd" /\ timers[i].n = runs
    /\ StatusText = "Voice: Starting..."

\* C20: with the timers run and the engine's start and end signals
\* delivered, whenever the engine has failed or ended while always-on is
\* set, the session is eventually Listening again, the engine running,
\* unless always-on is cleared (by the user or by a denied permission).
C20_AlwaysOnLiveness ==
    (isAlwaysOn /\ recognition.phase \in {"ending", "inactive"})
        ~> ((isListening /\ recognition.phase = "active") \/ ~isAlwaysOn)

\* After one toggle by the user the engine is running its second session
\* and the session is Listening again.
C20_Witness ==
    /\ toggles = 1
    /\ runs = 2
    /\ isAlwaysOn
    /\ isListening
    /\ recognition.phase = "active"

\* The last thing the session said is that voice assistance was turned off:
\* the user has turned it off and has not toggled it since.
TurnedOff ==
    /\ effects # <<>>
    /\ effects[Len(effects)].op = "speak"
    /\ effects[Len(effects)].text = "Voice assistance turned off."

\* C21: every toggle flips always-on; once the user has turned voice off,
\* and until they toggle again, the engine is neither starting nor running,
\* whatever it was doing when they turned it off; and no command is
\* dispatched while always-on is clear.
C21_VoiceOffStopsTheSession ==
    [][ /\ (toggles' # toggles) => (isAlwaysOn' # isAlwaysOn)
        /\ TurnedOff' => recognition'.phase \notin {"starting", "active"}
        /\ (handled' # handled) => isAlwaysOn
      ]_vars

\* What the callback of a timer that ran in this step did, for every kind of
\* timer but the restart after an error.
DelayedActionDone(t) ==
    CASE t.kind = "restartAfterEnd" ->
            recognition.phase = "inactive" => runs' = runs + 1
      [] t.kind = "retry" ->
            \E e \in Range(NewEffects) : e.op = "lookup" /\ e.text = "vote" /\ e.n = t.n
      [] t.kind \in {"voteClick", "retryClick", "confirmClick"} ->
            \E e \in Range(NewEffects) : e.op = "click" /\ e.eid = EidOf(t.el)
      [] OTHER -> TRUE

\* C22: turning voice off cancels no timer, and a timer of any kind that runs
\* while always-on is clear does what it was set for: the restart after an
\* error and the restart after the end start the engine, the retry looks
\* the control up again, the delayed click clicks.
C22_DelaysNotCancelled ==
    [][ /\ (toggles' # toggles /\ isAlwaysOn) => timers' = timers
        /\ ~isAlwaysOn =>
               \A t \in TimersRun :
                   /\ DelayedActionDone(t)
                   /\ t.kind = "restartAfterError" =>
                          (recognition.phase = "inactive" => runs' = runs + 1)
      ]_vars

\* C22 as the code has it: turning voice off cancels no timer; the restart
\* after the end, the retry and the delayed click act although always-on is
\* clear, but the callback of the restart after an error runs and, finding
\* always-on clear, does not start the engine.
C22_DelaysNotCancelledButErrorRestart ==
    [][ /\ (toggles' # toggles /\ isAlwaysOn) => timers' = timers
        /\ ~isAlwaysOn =>
               \A t \in TimersRun :
                   /\ DelayedActionDone(t)
                   /\ t.kind = "restartAfterError" =>
                          /\ runs' = runs
                          /\ recognition' = recognition
      ]_vars

\* Voice was turned off while the click of "Confirm" was pending, and the
\* control was clicked all the same.
C22_Witness ==
    /\ ~isAlwaysOn
    /\ \E j, k \in 1..Len(effects) :
           /\ j < k
           /\ effects[j].op = "speak" /\ effects[j].text = "Voice assistance turned off."
           /\ effects[k].op = "click" /\ effects[k].text = "modal-confirm-btn"

\* C23: in a browser without a recognition engine, a start request (a
\* toggle, a direct start, initVoiceForPage) reports that speech recognition
\* is not available, and the session stays as it was: always-on clear, not
\* listening, the status neither Starting nor Listening.
C23_CapabilityUnsupported ==
    [][ recognition.phase = "unsupported" =>
            /\ ~isAlwaysOn'
            /\ ~isListening'
            /\ StatusText' \notin {"Voice: Starting...", "Voice: Listening (Always On)"}
            /\ (toggles' # toggles /\ ~isAlwaysOn) =>
                   \E e \in Range(NewEffects) :
                       /\ e.op = "voiceError"
                       /\ e.text = "Speech recognition is not available in this browser."
      ]_vars

\* The indicator of the page header is on.
IndicatorOn ==
    \E i \in 1..Len(document) :
        document[i].id = "voice-indicator" /\ "listening" \in document[i].classes

\* The status the page shows is the one of the state.
StatusOfState ==
    /\ StatusText = (IF isAlwaysOn /\ isListening THEN "Voice: Listening (Always On)"
                     ELSE IF isAlwaysOn THEN "Voice: Starting..."
                     ELSE "Voice: Off")
    /\ IndicatorOn <=> (isAlwaysOn /\ isListening)

\* C24: after every step that changes always-on or isListening, the status
\* text and the indicator are those of the new state: Listening with the
\* indicator on iff always-on and listening, Starting with the indicator off
\* iff always-on and not listening, Off with the indicator off iff not
\* always-on.
C24_StatusReflectsState ==
    [][ (isAlwaysOn' # isAlwaysOn \/ isListening' # isListening) => StatusOfState' ]_vars

\* The engine was started by the restart timer and has signalled start: the
\* status went from Starting to Listening.
C24_Witness ==
    /\ runs = 2
    /\ recognition.phase = "active"
    /\ isAlwaysOn /\ isListening
    /\ StatusText = "Voice: Listening (Always On)"
    /\ IndicatorOn

\* The engine signals not-allowed in this step.
DeniedSignalled == recognition.error # "not-allowed" /\ recognition'.error = "not-allowed"

\* A restart of the engine is pending.
RestartPending ==
    \E i \in 1..Len(timers) : timers[i].kind \in {"restartAfterError", "restartAfterEnd"}

\* C25: no step but the not-allowed signal clears always-on, and a
\* dispatched command (no keyword, no candidate number, control not found)
\* and its retry leave always-on, isListening and the engine as they are;
\* after an error or an end the session is on its way back: while always-on
\* is set, an engine that has ended has a restart pending.
C25_OnlyPermissionDeniedEnds ==
    [][ /\ ~DeniedSignalled => (isAlwaysOn => isAlwaysOn')
        /\ (handled' # handled \/ \E t \in TimersRun : t.kind = "retry") =>
               /\ isAlwaysOn' = isAlwaysOn
               /\ isListening' = isListening
               /\ recognition'.phase = recognition.phase
        /\ (isAlwaysOn' /\ recognition'.phase = "inactive") => RestartPending'
      ]_vars

\* After a network error and the end signal, with "Hello" answered by the
\* help message before, always-on is still set and the restart is pending.
C25_Witness ==
    /\ isAlwaysOn
    /\ recognition.phase = "inactive"
    /\ recognition.error = "network"
    /\ intents = <<"Unrecognized">>
    /\ RestartPending

\* C26: an exception raised while an utterance is handled stays inside the
\* script: none is reported to the page as uncaught, the one the dispatch
\* raises is answered by the apology, and the step leaves isAlwaysOn and
\* isListening as they are.
C26_ExceptionContainment ==
    [][ \A i \in 1..Len(NewEffects) :
          /\ NewEffects[i].op # "uncaught"
          /\ NewEffects[i].op = "error" => (isAlwaysOn' = isAlwaysOn /\ isListening' = isListening)
          /\ (NewEffects[i].op = "error" /\ NewEffects[i].text = "Error handling voice command:") =>
                 /\ i < Len(NewEffects)
                 /\ NewEffects[i + 1].op = "speak"
                 /\ NewEffects[i + 1].text = Apology
      ]_vars

\* The keywords the handler of a context looks for.
Keywords(context) ==
    CASE context = "login" -> {"login", "log in", "clear", "back"}
      [] context = "home" ->
            {"voting page", "vote now", "go to voting", "read rules", "rules", "log out",
             "logout", "profile", "open profile", "home"}
      [] context = "voting" ->
            {"verify identity", "verify", "start verification", "begin verification",
             "confirm", "yes", "confirm vote", "cancel", "no", "vote", "select", "choose",
             "candidate", "number", "read candidate", "candidate list", "list candidates",
             "go back", "back", "return"}
      [] context = "face-verification" -> {"start", "verify", "begin", "retry", "try again"}
      [] OTHER -> {}

\* The command has no keyword of the context and, in the voting context, no
\* number of a candidate.
NoKeyword(context, command) ==
    /\ \A k \in Keywords(context) : ~Includes(command, k)
    /\ context = "voting" => extractCandidateNumber(command) = None

\* The help message of a context on a document.
HelpMessage(context, dom) ==
    CASE context = "login" -> "Say \"Login\" to proceed, or \"Clear\" to clear the form."
      [] context = "home" ->
            "Say \"Go to voting page\", \"Read rules\", \"Open profile\", or \"Log out\"."
      [] context = "face-verification" ->
            "Say \"Start verification\" to begin face recognition."
      [] context = "voting" ->
            IF IsShown(getElementById(dom, "face-verify-section"))
            THEN "Say \"Verify identity\" to begin verification, or \"Go back\" to return to home."
            ELSE IF IsShown(getElementById(dom, "voting-section"))
            THEN "Say \"Vote for candidate\" followed by the number, \"Read candidate list\", or \"Go back\"."
            ELSE "Say \"Verify identity\" to begin, \"Vote for candidate\" followed by the number, or \"Read candidate list\"."

\* C27: a dispatched command with no keyword of the context that handles it
\* has one effect, the spoken help message of that context (on the voting
\* page the one of the visible section); it sets no timer and leaves the
\* document, the page context and the listening session as they are.
C27_UnrecognisedGetsHelp ==
    [][ (handled' # handled /\ handler' # "none" /\ NoKeyword(handler', normalized')) =>
            /\ intents' = <<"Unrecognized">>
            /\ Len(effects') = 1
            /\ effects'[1].op = "speak"
            /\ effects'[1].text = HelpMessage(handler', document)
            /\ timers' = timers
            /\ document' = document
            /\ currentPage' = currentPage
            /\ session' = session
      ]_vars

\* "Hello" on the voting page before the verification: the help message of
\* the verification section.
C27_Witness ==
    /\ handler = "voting"
    /\ normalized = "hello"
    /\ intents = <<"Unrecognized">>
    /\ IsShown(getElementById(document, "face-verify-section"))
    /\ effects = << [u |-> handled, op |-> "speak",
                     text |-> HelpMessage("voting", document), eid |-> 0, n |-> 0, k |-> 0] >>

\* The number of vote records of a user.
VotesOf(st, aadhar) == Len(SelectSeq(getVotes(st), LAMBDA v : v.aadhar = aadhar))

\* C28: the stored votes hold at most one record for each Aadhar number,
\* and no step adds a vote record for a user whose has_voted_ item is set.
C28_OneVotePerUser ==
    [][ \A aadhar \in Aadhars :
          /\ VotesOf(localStorage', aadhar) <= 1
          /\ hasUserVoted(localStorage, aadhar) =>
                 VotesOf(localStorage', aadhar) = VotesOf(localStorage, aadhar)
      ]_vars

\* C29: "log out" or "logout" dispatched in the home context speaks the
\* logout message, clears the stored session, so that isLoggedIn() is false,
\* and then redirects to index.html, the login page; the votes, the
\* has_voted_ items and the face descriptors stay as they are.
C29_Logout ==
    [][ (handled' # handled /\ handler' = "home" /\ normalized' \in {"log out", "logout"}) =>
            /\ Len(effects') = 3
            /\ effects'[1].op = "speak" /\ effects'[1].text = "Logging out..."
            /\ effects'[2].op = "clearSession"
            /\ effects'[3].op = "redirect" /\ effects'[3].text = "index.html"
            /\ ~isLoggedIn(localStorage')
            /\ getVotes(localStorage') = getVotes(localStorage)
            /\ localStorage'.hasVoted = localStorage.hasVoted
            /\ localStorage'.faceDescriptors = localStorage.faceDescriptors
      ]_vars

\* A user who has voted has logged out: the vote, the has_voted_ item and a
\* face descriptor are stored, the session is not.
C29_Witness ==
    /\ handler = "home"
    /\ normalized = "log out"
    /\ Len(effects) = 3
    /\ effects[3].op = "redirect"
    /\ ~isLoggedIn(localStorage)
    /\ Len(getVotes(localStorage)) = 1
    /\ hasUserVoted(localStorage, getVotes(localStorage)[1].aadhar)
    /\ DOMAIN localStorage.faceDescriptors # {}

\* The step sets the timer of the welcome: it is a call of initVoiceForPage.
WelcomeSet == \E t \in TimersSet : t.kind = "welcome"

\* C30: a dispatch leaves currentPage, isAlwaysOn and isListening as they
\* are; currentPage changes only in a call of setCurrentPage, which changes
\* nothing else, or of initVoiceForPage; and initVoiceForPage with autoStart
\* false, or called while isAlwaysOn is set, asks for no start: the engine,
\* the count of its starts, isAlwaysOn and isListening stay as they are and
\* nothing is reported.
C30_StateOwnership ==
    [][ /\ handled' # handled =>
               /\ currentPage' = currentPage
               /\ isAlwaysOn' = isAlwaysOn
               /\ isListening' = isListening
        /\ currentPage' # currentPage =>
               \/ WelcomeSet
               \/ UNCHANGED << document, normalized, handler, intents, candidateNumber,
                               effects, timers, handled, session, localStorage, keydownListeners >>
        /\ ((WelcomeSet /\ isAlwaysOn) \/ \E page \in PagesWithVoice : InitVoiceForPage(page, FALSE)) =>
               /\ recognition' = recognition
               /\ runs' = runs
               /\ isAlwaysOn' = isAlwaysOn
               /\ isListening' = isListening
               /\ effects' = effects
      ]_vars

\* initVoiceForPage("voting", false) has run in a browser with an engine
\* never created: the context is set, the welcome is pending and voice is
\* off.
C30_Witness ==
    /\ currentPage = "voting"
    /\ \E i \in 1..Len(timers) : timers[i].kind = "welcome" /\ timers[i].el = Some("voting")
    /\ ~isAlwaysOn
    /\ runs = 0
    /\ effects = <<>>
    /\ recognition.phase = "null"

\* The callbacks of dialog j that have run, in order.
CallbacksOf(log, j) ==
    SelectSeq(log, LAMBDA e : e.op = "callback" /\ DialogOf(e.eid) = j)

\* C31: of the callbacks of a dialog at most one runs, and at most once; and
\* no step calls onCancel of a dialog that has been confirmed or replaced by
\* a later dialog.
C31_DialogCallbacksOnce ==
    [][ \A j \in 1..MaxDialogs :
          /\ Len(CallbacksOf(effects', j)) <= 1
          /\ (\E e \in Range(CallbacksOf(effects, j)) : e.text = "onConfirm") \/ Shown > j =>
                 CallbacksOf(effects', j) = CallbacksOf(effects, j)
      ]_vars

\* C32: every Aadhar number with a vote record has its has_voted_ item set;
\* a storeVote that returns true has written the record and the item, and
\* one that returns false has left the votes and the items as they were.
C32_RecordAndFlagConsistent ==
    [][ /\ \A aadhar \in Aadhars :
               VotesOf(localStorage', aadhar) > 0 => hasUserVoted(localStorage', aadhar)
        /\ \A i \in 1..Len(NewEffects) :
               NewEffects[i].op = "storeVote" =>
                   IF NewEffects[i].n = 1
                   THEN /\ VotesOf(localStorage', NewEffects[i].text)
                              = VotesOf(localStorage, NewEffects[i].text) + 1
                        /\ hasUserVoted(localStorage', NewEffects[i].text)
                   ELSE /\ getVotes(localStorage') = getVotes(localStorage)
                        /\ localStorage'.hasVoted = localStorage.hasVoted
      ]_vars

\* The command has a keyword of the verification.
IsVerifyCommand(command) ==
    \/ Includes(command, "verify identity") \/ Includes(command, "verify")
    \/ Includes(command, "start verification") \/ Includes(command, "begin verification")

\* C33: a verification command handled by the voting handler enters no
\* other branch and sets no timer; with the verification control disabled it
\* only says that the verification is in progress, with the control absent
\* it only says that the control was not found, and it never clicks a
\* control that is disabled.
C33_NoVerificationWhileInProgress ==
    [][ (handled' # handled /\ handler' = "voting" /\ IsVerifyCommand(normalized')) =>
            LET verifyBtn == getElementById(document, "btn-verify-face")
            IN  /\ intents' = <<"StartVerification">>
                /\ timers' = timers
                /\ \A i \in 1..Len(effects') :
                       effects'[i].op = "click" =>
                           /\ verifyBtn # None
                           /\ effects'[i].eid = verifyBtn[1].eid
                           /\ ~verifyBtn[1].disabled
                /\ (verifyBtn # None /\ verifyBtn[1].disabled) =>
                       /\ Len(effects') = 1
                       /\ effects'[1].op = "speak"
                       /\ effects'[1].text = "Verification is already in progress. Please wait."
                       /\ document' = document
                /\ verifyBtn = None =>
                       /\ Len(effects') = 1
                       /\ effects'[1].op = "speak"
                       /\ effects'[1].text = "Verify button not found. Please refresh the page."
                       /\ document' = document
      ]_vars

\* "Verify, confirm!" on a page whose verification control is disabled: only
\* the message that the verification is in progress.
C33_Witness ==
    /\ handler = "voting"
    /\ normalized = "verify confirm"
    /\ intents = <<"StartVerification">>
    /\ \E i \in 1..Len(document) : document[i].id = "btn-verify-face" /\ document[i].disabled
    /\ Len(effects) = 1
    /\ effects[1].text = "Verification is already in progress. Please wait."
    /\ timers = <<>>

\* The number a data-candidate-number attribute gives.
NumberOfAttribute(opt) == IF Truthy(opt) THEN parseInt(opt[1]) ELSE None

\* The control belongs to candidate n: by its own data-candidate-number, by
\* that of an element that encloses it, or by its id vote-btn-n.
AssociatedWith(el, n) ==
    \/ NumberOfAttribute(el.dcn) = Some(n)
    \/ \E k \in 1..Len(el.anc) : NumberOfAttribute(el.anc[k].dcn) = Some(n)
    \/ el.id = "vote-btn-" \o numberToString(n)

\* C34: a click scheduled for a vote command is scheduled for the number
\* the command gave and on a control of that candidate, and a vote control
\* is clicked only by such a timer, for the candidate it belongs to.
C34_ControlMatchesOrdinal ==
    [][ /\ \A t \in TimersSet :
              t.kind \in VoteClickKinds =>
                  /\ t.el # None
                  /\ AssociatedWith(t.el[1], t.n)
                  /\ handled' # handled => candidateNumber' = Some(t.n)
        /\ \A k \in 1..Len(NewEffects) :
              (/\ NewEffects[k].op = "click"
               /\ \E i \in 1..Len(document) :
                      document[i].eid = NewEffects[k].eid /\ document[i].onclick = "vote") =>
                  \E t \in TimersRun :
                      /\ t.kind \in VoteClickKinds
                      /\ EidOf(t.el) = NewEffects[k].eid
                      /\ AssociatedWith(t.el[1], t.n)
      ]_vars

\* "2" on a page whose second candidate carries the number as "02" on its
\* card: the control found by the scan has been clicked.
C34_Witness ==
    /\ normalized = "2"
    /\ candidateNumber = Some(2)
    /\ \E k \in 1..Len(effects), i \in 1..Len(document) :
           /\ effects[k].op = "click"
           /\ document[i].eid = effects[k].eid
           /\ document[i].onclick = "vote"
           /\ \E a \in 1..Len(document[i].anc) : document[i].anc[a].dcn = Some("02")

====
